---- MODULE Spec2Model ----
(***************************************************************************)
(* FsContextEngine (packages/core): the content-addressed execute-or-hit   *)
(* cache, its scratch-and-rename publish, dependency mounting and          *)
(* recovery, modelled step by step at the granularity of the awaits in     *)
(* FsContextEngine.execute / get / remove and of the fsData helpers.       *)
(***************************************************************************)
EXTENDS Integers, Sequences, FiniteSets, TLC

(***************************************************************************)
(* Bounds of the model.                                                    *)
(***************************************************************************)
MaxCalls == 4   \* call frames alive at once (top-level calls and dependency calls)
MaxOps == 3     \* top-level operations started in one behaviour
MaxRegs == 1    \* createExecutor calls after construction
MaxPar == 2     \* top-level execute calls in flight at once with concurrent callers
MaxConcOps == 2 \* top-level operations started in one behaviour with concurrent callers
Fuel == 3       \* symlink hops followed by stat before giving up (ELOOP)

(***************************************************************************)
(* Paths.  A path string is modelled by its absolute flag and its list of  *)
(* segments, so that split / join / resolve / relative act on it as the    *)
(* node path module does.                                                  *)
(***************************************************************************)
Path(a, s) == [abs |-> a, segs |-> s]

DATA_SPACE_DIRNAME == "data-space"

\* Segment names whose text begins with the two characters "..".
StartsWithDotDot(seg) == seg \in {"..", "..foo"}

RECURSIVE NormAcc(_, _)
NormAcc(segs, acc) ==
  IF segs = <<>> THEN acc
  ELSE LET s == Head(segs) IN
       IF s = "." \/ s = "" THEN NormAcc(Tail(segs), acc)
       ELSE IF s = ".." /\ acc # <<>> /\ acc[Len(acc)] # ".."
            THEN NormAcc(Tail(segs), SubSeq(acc, 1, Len(acc) - 1))
            ELSE NormAcc(Tail(segs), Append(acc, s))

\* path.normalize on a relative segment list: drops "." and resolves "..".
Normalize(segs) == NormAcc(segs, <<>>)

\* A check that forgets the ".." segments.
assertRelativePath(value) ==
  /\ value.segs # <<>>
  /\ ~value.abs

\* assertSafeRelativePath: TRUE when the value is returned, FALSE when it throws.
assertSafeRelativePath(value) ==
  /\ value.segs # <<>>                                  \* trimmed value is not empty
  /\ ~value.abs                                         \* path.isAbsolute
  /\ \A i \in 1..Len(value.segs) : value.segs[i] # ".." \* no ".." segment

(***************************************************************************)
(* Fingerprints.  A JSON value is a number, a string, an array or an       *)
(* object; an object or array keeps its members as <<key, value>> pairs in *)
(* insertion order (the key of an array element is "").  A serialised      *)
(* string is the sequence of its tokens.                                   *)
(***************************************************************************)
JNum(n) == [t |-> "num", n |-> n, s |-> "", kids |-> <<>>]
JStr(s) == [t |-> "str", n |-> 0, s |-> s, kids |-> <<>>]
JObj(pairs) == [t |-> "obj", n |-> 0, s |-> "", kids |-> pairs]
JArr(elems) == [t |-> "arr", n |-> 0, s |-> "",
                kids |-> [i \in 1..Len(elems) |-> <<"", elems[i]>>]]
\* A function value, and a reference from inside an input back to the input
\* object itself (a cyclic input).
JFn == [t |-> "fn", n |-> 0, s |-> "", kids |-> <<>>]
JSelf == [t |-> "self", n |-> 0, s |-> "", kids |-> <<>>]

\* The strings that occur as keys or values, in code-unit order.
StringOrder == <<"a", "b", "input", "kind", "sink", "src", "v">>

\* The place of a key in the order Array.prototype.sort gives strings.
KeyRank(k) == CHOOSE i \in 1..Len(StringOrder) : StringOrder[i] = k

\* JSON.stringify of a string and of a number.
Quote(s) == "\"" \o s \o "\""
Digits(n) == ToString(n)

\* The order of two tokens as sort compares the strings they begin: a quote
\* (0x22) before a digit (0x30..) before "[" (0x5B) before "{" (0x7B).
TokenRank(tok) ==
  IF \E i \in 1..Len(StringOrder) : tok = Quote(StringOrder[i])
  THEN CHOOSE i \in 1..Len(StringOrder) : tok = Quote(StringOrder[i])
  ELSE IF \E n \in 0..9 : tok = Digits(n)
  THEN 100 + (CHOOSE n \in 0..9 : tok = Digits(n))
  ELSE CASE tok = "," -> 50 [] tok = ":" -> 150 [] tok = "[" -> 200
         [] tok = "]" -> 210 [] tok = "undefined" -> 250 [] tok = "{" -> 300
         [] tok = "}" -> 310

RECURSIVE StringLeq(_, _)
StringLeq(x, y) ==
  IF x = <<>> THEN TRUE
  ELSE IF y = <<>> THEN FALSE
  ELSE IF Head(x) = Head(y) THEN StringLeq(Tail(x), Tail(y))
  ELSE TokenRank(Head(x)) < TokenRank(Head(y))

\* The serialised elements of an array left in the order of the array.
KeepOrder(xs) == xs

\* obj.map(stableStringify).sort()
RECURSIVE InsertString(_, _)
InsertString(x, sorted) ==
  IF sorted = <<>> THEN <<x>>
  ELSE IF StringLeq(x, Head(sorted)) THEN <<x>> \o sorted
       ELSE <<Head(sorted)>> \o InsertString(x, Tail(sorted))

RECURSIVE SortStrings(_)
SortStrings(xs) ==
  IF xs = <<>> THEN <<>> ELSE InsertString(Head(xs), SortStrings(Tail(xs)))

\* Object.keys(obj).sort(), each key carried with its value.
RECURSIVE InsertPair(_, _)
InsertPair(p, sorted) ==
  IF sorted = <<>> THEN <<p>>
  ELSE IF KeyRank(p[1]) <= KeyRank(Head(sorted)[1])
       THEN <<p>> \o sorted
       ELSE <<Head(sorted)>> \o InsertPair(p, Tail(sorted))

RECURSIVE SortPairs(_)
SortPairs(pairs) ==
  IF pairs = <<>> THEN <<>> ELSE InsertPair(Head(pairs), SortPairs(Tail(pairs)))

\* parts.join(',')
RECURSIVE Join(_)
Join(parts) ==
  IF parts = <<>> THEN <<>>
  ELSE IF Len(parts) = 1 THEN Head(parts)
  ELSE Head(parts) \o <<",">> \o Join(Tail(parts))

\* JSON.stringify-like output: members in insertion order, nothing sorted.
RECURSIVE stringifyInsertionOrder(_)
stringifyInsertionOrder(obj) ==
  CASE obj.t = "num" -> <<Digits(obj.n)>>
    [] obj.t = "str" -> <<Quote(obj.s)>>
    [] obj.t = "fn" -> <<"undefined">>
    [] obj.t = "arr" ->
         <<"[">> \o Join([i \in 1..Len(obj.kids) |->
                            stringifyInsertionOrder(obj.kids[i][2])]) \o <<"]">>
    [] obj.t = "obj" ->
         <<"{">> \o Join([i \in 1..Len(obj.kids) |->
                            <<Quote(obj.kids[i][1]), ":">>
                              \o stringifyInsertionOrder(obj.kids[i][2])])
                 \o <<"}">>

\* JSON.stringify gives undefined for a function: it becomes the text
\* "undefined" when concatenated after a key; in an array, sort moves
\* undefined elements to the end and join writes them as empty strings.
\* (A cyclic value never gets here: see Cyclic.)
RECURSIVE stableStringify(_)
stableStringify(obj) ==
  CASE obj.t = "num" -> <<Digits(obj.n)>>
    [] obj.t = "str" -> <<Quote(obj.s)>>
    [] obj.t = "fn" -> <<"undefined">>
    [] obj.t = "arr" ->
         LET defined == SelectSeq(obj.kids, LAMBDA k : k[2].t # "fn")
             undefineds == [i \in 1..(Len(obj.kids) - Len(defined)) |-> <<>>] IN
         <<"[">> \o Join(SortStrings([i \in 1..Len(defined) |->
                                        stableStringify(defined[i][2])]) \o undefineds)
                 \o <<"]">>
    [] obj.t = "obj" ->
         LET keys == SortPairs(obj.kids) IN
         <<"{">> \o Join([i \in 1..Len(keys) |->
                            <<Quote(keys[i][1]), ":">> \o stableStringify(keys[i][2])])
                 \o <<"}">>

\* The digest is taken to be injective on the canonical serialisation.
generateDataId(kind, input) ==
  stableStringify(JObj(<< <<"kind", JStr(kind)>>, <<"input", JObj(input)>> >>))

\* The value refers back to the input object: stableStringify recurses
\* through the reference until the call stack is exhausted.
RECURSIVE Cyclic(_)
Cyclic(v) == v.t = "self" \/ \E i \in 1..Len(v.kids) : Cyclic(v.kids[i][2])

\* generateDataId as its callers see it: the dataId, or the error thrown.
generateDataIdOrThrow(kind, input) ==
  IF Cyclic(JObj(input)) THEN [err |-> "RangeError", id |-> <<>>]
  ELSE [err |-> "", id |-> generateDataId(kind, input)]

Kinds == {"src", "sink"}
InputV1 == << <<"v", JNum(1)>> >>
InputV2 == << <<"v", JNum(2)>> >>
InputsOf(kind) == IF kind = "src" THEN {InputV1, InputV2} ELSE {<<>>}
Fps == UNION { { generateDataId(k, i) : i \in InputsOf(k) } : k \in Kinds }

\* generateDataId of the (kind, input) pairs that calls are made with,
\* computed once.
DataIds ==
  [p \in {<<k, i>> : k \in Kinds, i \in {InputV1, InputV2, <<>>}} |-> generateDataId(p[1], p[2])]

\* generateDataId(kind, input) as the engine calls it.
DataId(kind, input) ==
  IF <<kind, input>> \in DOMAIN DataIds THEN DataIds[<<kind, input>>]
  ELSE generateDataId(kind, input)

\* buildDataPath: root/fs-data/<version>/<kind>/<shard>/<dataId>; the shard is
\* the first two characters of dataId, so kind and dataId determine the path.
buildDataPath(kind, dataId) == <<"fs-data", kind, dataId>>

\* Two JSON values that are the same value in the program: equal scalars,
\* arrays equal element by element, objects with the same keys and the same
\* value under each key.
RECURSIVE SameValue(_, _)
SameValue(x, y) ==
  /\ x.t = y.t
  /\ CASE x.t = "num" -> x.n = y.n
       [] x.t = "str" -> x.s = y.s
       [] x.t = "arr" -> /\ Len(x.kids) = Len(y.kids)
                         /\ \A i \in 1..Len(x.kids) : SameValue(x.kids[i][2], y.kids[i][2])
       [] x.t = "obj" -> /\ Len(x.kids) = Len(y.kids)
                         /\ \A i \in 1..Len(x.kids) :
                              \E j \in 1..Len(y.kids) :
                                /\ x.kids[i][1] = y.kids[j][1]
                                /\ SameValue(x.kids[i][2], y.kids[j][2])

\* Every way to write a value down: the keys of each object, at any depth,
\* in any order.
RECURSIVE KeyOrders(_)
KeyOrders(v) ==
  IF v.t \in {"num", "str"} THEN {v}
  ELSE LET n == Len(v.kids)
           kid == [i \in 1..n |-> KeyOrders(v.kids[i][2])]
           all == UNION {kid[i] : i \in 1..n}
           picks == {f \in [1..n -> all] : \A i \in 1..n : f[i] \in kid[i]}
           orders == IF v.t = "arr" THEN {[i \in 1..n |-> i]}
                     ELSE {p \in [1..n -> 1..n] : \A i, j \in 1..n : p[i] = p[j] => i = j}
       IN {[v EXCEPT !.kids = [i \in 1..n |-> <<v.kids[p[i]][1], f[p[i]]>>]] :
             p \in orders, f \in picks}

\* Every value that differs from v only in the order of the elements of its
\* arrays, at any depth.
RECURSIVE ArrayOrders(_)
ArrayOrders(v) ==
  IF v.t \in {"num", "str"} THEN {v}
  ELSE LET n == Len(v.kids)
           kid == [i \in 1..n |-> ArrayOrders(v.kids[i][2])]
           all == UNION {kid[i] : i \in 1..n}
           picks == {f \in [1..n -> all] : \A i \in 1..n : f[i] \in kid[i]}
           orders == IF v.t = "obj" THEN {[i \in 1..n |-> i]}
                     ELSE {p \in [1..n -> 1..n] : \A i, j \in 1..n : p[i] = p[j] => i = j}
       IN {[v EXCEPT !.kids = [i \in 1..n |-> <<v.kids[p[i]][1], f[p[i]]>>]] :
             p \in orders, f \in picks}

\* Inputs with arrays of several elements: scalars, and arrays inside an
\* array and inside an object inside an array.
InputList == << <<"a", JArr(<<JNum(1), JNum(2), JStr("b")>>)>> >>
InputDeepList ==
  << <<"a", JArr(<< JArr(<<JNum(1), JNum(2)>>),
                    JObj(<< <<"b", JArr(<<JStr("a"), JStr("b")>>)>> >>) >>)>> >>

\* Inputs with objects inside objects and inside arrays.
InputNested == << <<"a", JObj(<< <<"a", JNum(1)>>, <<"b", JNum(2)>> >>)>>, <<"v", JNum(1)>> >>
InputSwapped == << <<"a", JObj(<< <<"a", JNum(2)>>, <<"b", JNum(1)>> >>)>>, <<"v", JNum(1)>> >>
InputArray == << <<"a", JArr(<< JObj(<< <<"b", JNum(1)>>, <<"v", JNum(2)>> >>) >>)>>,
                 <<"b", JObj(<< <<"a", JObj(<< <<"a", JNum(1)>>, <<"v", JNum(2)>> >>)>> >>)>> >>
IdInputs ==
  {v.kids : v \in KeyOrders(JObj(InputNested)) \cup KeyOrders(JObj(InputSwapped))
                    \cup KeyOrders(JObj(InputArray)) \cup {JObj(InputV1)}
                    \cup ArrayOrders(JObj(InputList))
                    \cup ArrayOrders(JObj(InputDeepList))}

\* Inputs that hold a function value (under a key, in an array) or refer
\* back to themselves.
InputFn == << <<"a", JFn>>, <<"v", JNum(1)>> >>
InputFnList == << <<"a", JArr(<<JFn, JNum(1)>>)>> >>
InputCyclic == << <<"a", JSelf>>, <<"v", JNum(1)>> >>
OddInputs == {InputFn, InputFnList, InputCyclic}

NoIds == [pc |-> "", kind |-> "", other |-> "", a |-> <<>>, b |-> <<>>,
          idA |-> <<>>, idB |-> <<>>, idOther |-> <<>>, pathA |-> <<>>, pathB |-> <<>>,
          errA |-> "", errB |-> ""]

(***************************************************************************)
(* Directories on disk.  An artifact or scratch directory holds the        *)
(* manifest file, the dataLink symlink and the data-space directory with   *)
(* the files fn wrote and the dependency symlinks mounted in it.           *)
(***************************************************************************)
MountNames == {"in", "in2"}

NoLink == <<>>
NoManifest == [kind |-> "", input |-> <<>>, metadata |-> 0, createdAt |-> 0, updatedAt |-> 0]
NoMountLink == [up |-> 0, to |-> <<>>]
NoMounts == [m \in MountNames |-> NoMountLink]

\* ver stands for the content fn wrote (the ordinal of the fn run that wrote
\* it); tmpOf is the dataId in the name of a scratch directory.
NoDir == [exists |-> FALSE, manifest |-> NoManifest, link |-> NoLink,
          ws |-> FALSE, files |-> {}, mounts |-> NoMounts, ver |-> 0, tmpOf |-> <<>>]
EmptyDir == [NoDir EXCEPT !.exists = TRUE]

\* Members of a directory as readdir lists them.
Members(d) ==
  (IF d.manifest # NoManifest THEN {"manifest"} ELSE {})
    \cup (IF d.link # NoLink THEN {"dataLink"} ELSE {})
    \cup (IF d.ws THEN {DATA_SPACE_DIRNAME} ELSE {})

\* unlink / rm -r of one member of a directory.
RemoveMember(d, m) ==
  IF ~d.exists THEN d
  ELSE CASE m = "manifest" -> [d EXCEPT !.manifest = NoManifest]
         [] m = "dataLink" -> [d EXCEPT !.link = NoLink]
         [] OTHER -> [d EXCEPT !.ws = FALSE, !.files = {}, !.mounts = NoMounts, !.ver = 0]

\* fsDataExists: the manifest file is accessible.
fsDataExists(d) == d.exists /\ d.manifest # NoManifest

\* createManifest: createdAt and updatedAt are both the time of the call.
createManifest(kind, input, metadata, now) ==
  [kind |-> kind, input |-> input, metadata |-> metadata,
   createdAt |-> now, updatedAt |-> now]

NoPath == [fp |-> <<>>, segs |-> <<>>]

\* readDataLink: the readlink itself, then the check that the resolved path
\* lies within data-space.  err = "" when a path is returned.
readDataLink(fp, d) ==
  IF ~d.exists \/ d.link = NoLink
  THEN [err |-> "ENOENT", path |-> NoPath]
  ELSE LET resolved == Normalize(d.link)
           inside == resolved # <<>> /\ Head(resolved) = DATA_SPACE_DIRNAME
           relative == IF inside THEN Tail(resolved) ELSE <<"..">> \o resolved
       IN IF relative # <<>> /\ StartsWithDotDot(Head(relative))
          THEN [err |-> "OutsideDataSpace", path |-> NoPath]
          ELSE [err |-> "", path |-> [fp |-> fp, segs |-> relative]]

\* A target computed from the mount itself instead of its parent directory.
computeDepLinkTargetFromMount(mountSegs, targetFp) ==
  [up |-> Len(mountSegs) + 4, to |-> targetFp]

\* computeDepLinkTarget: the relative string from the mount's parent
\* directory to the target artifact's dataLink; it climbs from data-space
\* to the store version root and descends into the target artifact.
computeDepLinkTarget(mountSegs, targetFp) ==
  [up |-> Len(mountSegs) + 3, to |-> targetFp]

\* fs.stat of data-space/<rel> inside artifact fp of store st, following
\* symlinks as the kernel does: a mount leads to the target's dataLink and
\* from there into the target's data-space.
RECURSIVE PathExists(_, _, _, _)
RECURSIVE FollowMount(_, _, _)
FollowMount(st, t, fuel) ==
  /\ fuel > 0
  /\ t # NoMountLink
  /\ t.up = 4
  /\ t.to \in Fps
  /\ st[t.to].exists
  /\ st[t.to].link # NoLink
  /\ LET r == Normalize(st[t.to].link) IN
     /\ r # <<>>
     /\ Head(r) = DATA_SPACE_DIRNAME
     /\ PathExists(st, t.to, Tail(r), fuel - 1)

PathExists(st, fp, rel, fuel) ==
  LET d == st[fp] IN
  IF fuel = 0 \/ ~d.exists \/ ~d.ws THEN FALSE
  ELSE IF rel = <<>> THEN TRUE
  ELSE IF Len(rel) > 1 THEN FALSE
  ELSE LET n == Head(rel) IN
       IF n \in d.files THEN TRUE
       ELSE IF n \in MountNames THEN FollowMount(st, d.mounts[n], fuel)
       ELSE FALSE

\* fs.stat of the mount symlink n that lives in directory d (scratch or
\* published) of a store whose published artifacts are st.
MountResolves(st, d, n) ==
  d.exists /\ d.ws /\ n \in MountNames /\ FollowMount(st, d.mounts[n], Fuel)

(***************************************************************************)
(* Executors.  A user fn is modelled by what it does: it throws, or it     *)
(* writes some files into the data-space it is given and returns an entry. *)
(***************************************************************************)
EntryOut == Path(FALSE, <<"out">>)          \* a file fn wrote
EntryDot == Path(FALSE, <<".">>)            \* the data-space itself
EntryMissing == Path(FALSE, <<"nofile">>)   \* safe, but fn never created it
EntryMount == Path(FALSE, <<"in">>)         \* the mount path of a dependency
EntryDotDotFoo == Path(FALSE, <<"..foo">>)  \* a file whose name begins with ".."
EntryUp == Path(FALSE, <<"..", "evil">>)
EntryAbs == Path(TRUE, <<"abs">>)
EntryEmpty == Path(FALSE, <<>>)

FnThrow == [throws |-> TRUE, writes |-> {}, entry |-> EntryEmpty, links |-> NoMounts]
FnOut == [throws |-> FALSE, writes |-> {"out"}, entry |-> EntryOut, links |-> NoMounts]
FnDot == [throws |-> FALSE, writes |-> {}, entry |-> EntryDot, links |-> NoMounts]
FnMissing == [throws |-> FALSE, writes |-> {}, entry |-> EntryMissing, links |-> NoMounts]
FnMount == [throws |-> FALSE, writes |-> {}, entry |-> EntryMount, links |-> NoMounts]
FnDotDotFoo == [throws |-> FALSE, writes |-> {"..foo"}, entry |-> EntryDotDotFoo, links |-> NoMounts]
FnUp == [throws |-> FALSE, writes |-> {"out"}, entry |-> EntryUp, links |-> NoMounts]
FnAbs == [throws |-> FALSE, writes |-> {"out"}, entry |-> EntryAbs, links |-> NoMounts]
FnEmpty == [throws |-> FALSE, writes |-> {"out"}, entry |-> EntryEmpty, links |-> NoMounts]

\* A symlink fn makes in its workspace to a path outside the store.
OutsideLink == [up |-> 7, to |-> <<>>]

\* fn writes a file and makes a symlink to a path outside the store.
FnLinkOut == [throws |-> FALSE, writes |-> {"out"}, entry |-> EntryOut,
              links |-> [NoMounts EXCEPT !["in2"] = OutsideLink]]

\* The fns the model registers: every behaviour for the parent kind, and for
\* the dependency kind the behaviours that differ as seen from a parent.
SinkFns == {FnThrow, FnOut, FnDot, FnMissing, FnMount, FnDotDotFoo, FnUp, FnAbs, FnEmpty}
SrcFns == {FnThrow, FnOut, FnMissing, FnDotDotFoo}

\* ExecutorConfig placed under a mount path (executor.config()).
Dep(m, kind, input, skip) ==
  [path |-> Path(FALSE, <<m>>), kind |-> kind, input |-> input, skipCache |-> skip]

\* The deps records the model registers, in Object.entries order.
NoDeps == <<>>
DepsV1 == << Dep("in", "src", InputV1, FALSE) >>
DepsV2 == << Dep("in", "src", InputV2, FALSE) >>
DepsBoth == << Dep("in", "src", InputV1, FALSE), Dep("in2", "src", InputV2, FALSE) >>
DepsTwice == << Dep("in", "src", InputV1, FALSE), Dep("in2", "src", InputV1, FALSE) >>
DepsSkip == << Dep("in", "src", InputV1, TRUE) >>
DepsOf(kind) == IF kind = "src" THEN {NoDeps}
                ELSE {NoDeps, DepsV1, DepsV2, DepsBoth, DepsTwice, DepsSkip}

Handle(kind, deps, fn) == [kind |-> kind, deps |-> deps, fn |-> fn]

\* Dependency declarations whose mount path safeResolveWithin must reject:
\* an absolute path, the empty path, a path that begins with "..", and a
\* path with an inner ".." segment that normalises to a path inside.
DepAt(p, kind, input) == [path |-> p, kind |-> kind, input |-> input, skipCache |-> FALSE]
DepsAbs == << DepAt(Path(TRUE, <<"in">>), "src", InputV1) >>
DepsEmpty == << DepAt(Path(FALSE, <<>>), "src", InputV1) >>
DepsUp == << DepAt(Path(FALSE, <<"..", "in">>), "src", InputV1) >>
DepsInner == << DepAt(Path(FALSE, <<"in", "..", "in">>), "src", InputV1) >>
UnsafeDeps == {DepsAbs, DepsEmpty, DepsUp, DepsInner}

\* Two declared dependencies, the first under an absolute mount path, the
\* second under a safe one.
DepsOneUnsafe ==
  << DepAt(Path(TRUE, <<"in">>), "src", InputV1), DepAt(Path(FALSE, <<"in2">>), "src", InputV1) >>

\* A parent that declares itself, with its own input, as its dependency.
DepsSelf == << DepAt(Path(FALSE, <<"in">>), "sink", <<>>) >>

\* A safeResolveWithin with neither the ".." segment check nor the check of
\* the resolved path.
safeResolveLax(p) == ~p.abs /\ p.segs # <<>>

\* safeResolveWithin: TRUE when the mount path is returned, FALSE when it throws.
safeResolveWithin(p) ==
  /\ assertSafeRelativePath(p)
  /\ LET r == Normalize(p.segs) IN r = <<>> \/ Head(r) # ".."

\* The name under data-space that a mount path resolves to: "." for
\* data-space itself, ".." for a path that leaves it.
MountName(p) == LET r == Normalize(p.segs) IN IF r = <<>> THEN "." ELSE Head(r)

\* The mount path lies outside data-space.
Outside(p) == MountName(p) = ".."

(***************************************************************************)
(* Call frames: one per running execute / get / remove, with its position  *)
(* (pc) between awaits.                                                    *)
(***************************************************************************)
Calls == 1..MaxCalls

NoRes == [ok |-> FALSE, path |-> NoPath, err |-> ""]
Ok(p) == [ok |-> TRUE, path |-> p, err |-> ""]
Err(e) == [ok |-> FALSE, path |-> NoPath, err |-> e]

IdleFrame ==
  [op |-> "idle", pc |-> "idle", kind |-> "", input |-> <<>>, skipCache |-> FALSE,
   deps |-> NoDeps, fn |-> FnThrow, role |-> "none", parent |-> 0, pfp |-> <<>>,
   mount |-> EntryEmpty,
   todo |-> NoDeps, entry |-> EntryEmpty, cached |-> NoPath, rmLeft |-> {},
   ran |-> 0, meta |-> 0, took |-> "", renamed |-> "", res |-> NoRes]

(***************************************************************************)
(* listFsDataNodes: the directories under fs-data/<version>/<kind>/<shard>  *)
(* and the node read for each of them.                                     *)
(***************************************************************************)
\* The name of a directory in a shard directory: a published artifact is
\* named <dataId>, a scratch directory .tmp-<dataId>-<nonce> (the nonce is
\* the call that made it).
DirName(prefix, id, nonce) == [prefix |-> prefix, id |-> id, nonce |-> nonce]
TMP_PREFIX == ".tmp-"

\* The kind directory an artifact of fingerprint fp lives under.
KindOfFp(fp) == CHOOSE k \in Kinds : \E i \in InputsOf(k) : DataId(k, i) = fp

\* readdir of the shard directories of a kind: published and scratch
\* directories of store st and scratch area tm.
ListedDirs(st, tm, kind) ==
  {DirName("", fp, 0) : fp \in {f \in Fps : st[f].exists /\ KindOfFp(f) = kind}}
    \cup {DirName(TMP_PREFIX, tm[c].tmpOf, c) :
             c \in {d \in 1..Len(tm) : tm[d].exists /\ KindOfFp(tm[d].tmpOf) = kind}}

NoEdge == [linkPath |-> "", targetKind |-> "", targetDataId |-> <<>>]

\* A parseDepLinkTarget that takes every symlink target for a dependency.
parseAnyTarget(name, t) == [linkPath |-> name, targetKind |-> "", targetDataId |-> t.to]

\* parseDepLinkTarget on the resolved target of the symlink data-space/<name>:
\* the target must lie under the store version root and have the shape
\* <kind>/<shard>/<dataId>/dataLink.
parseDepLinkTarget(name, t) ==
  IF t.up = 4 /\ t.to # <<>>
  THEN [linkPath |-> name, targetKind |-> KindOfFp(t.to), targetDataId |-> t.to]
  ELSE NoEdge

\* discoverDepLinks: one edge for each symlink of data-space that parses.
discoverDepLinks(d) ==
  IF ~d.ws THEN {}
  ELSE {parseDepLinkTarget(n, d.mounts[n]) : n \in {m \in MountNames : d.mounts[m] # NoMountLink}}
         \ {NoEdge}

NoNode == [kind |-> "", dataId |-> DirName("", <<>>, 0), entryPath |-> NoPath,
           manifest |-> NoManifest, deps |-> {}]

\* readFsDataNode: the directory is found again through
\* buildDataPath(root, kind, dataId), whose shard is the first two characters
\* of dataId; NoNode stands for null.
readFsDataNode(st, kind, dataId) ==
  LET d == IF dataId.prefix = "" /\ dataId.id \in Fps /\ KindOfFp(dataId.id) = kind
           THEN st[dataId.id] ELSE NoDir IN
  IF ~fsDataExists(d) THEN NoNode
  ELSE [kind |-> kind, dataId |-> dataId,
        entryPath |-> readDataLink(dataId.id, d).path,
        manifest |-> d.manifest,
        deps |-> discoverDepLinks(d)]

NoScan == [pc |-> "idle", kinds |-> {}, kind |-> "", todo |-> {}, skipped |-> {},
           nodes |-> {}, quiet |-> FALSE, ops |-> 0]

(***************************************************************************)
(* Kind names as texts (sequences of characters), as assertValidKind sees   *)
(* them.                                                                   *)
(***************************************************************************)
Whitespace == {" ", "\t", "\n"}

RECURSIVE TrimStart(_)
TrimStart(text) ==
  IF text # <<>> /\ Head(text) \in Whitespace THEN TrimStart(Tail(text)) ELSE text

RECURSIVE TrimEnd(_)
TrimEnd(text) ==
  IF text # <<>> /\ text[Len(text)] \in Whitespace
  THEN TrimEnd(SubSeq(text, 1, Len(text) - 1)) ELSE text

\* String.prototype.trim
Trim(text) == TrimEnd(TrimStart(text))

\* The string a text spells.
RECURSIVE Flat(_)
Flat(text) == IF text = <<>> THEN "" ELSE Head(text) \o Flat(Tail(text))

\* An assertValidKind that checks the trimmed text for emptiness but never
\* compares it with the text itself.
assertValidKindTrimmed(text) ==
  LET trimmed == Trim(text) IN
  /\ trimmed # <<>>
  /\ text \notin {<<".">>, <<".", ".">>}
  /\ \A i \in 1..Len(text) : text[i] \notin {"/", "\\"}

\* assertValidKind: TRUE when it returns, FALSE when it throws.
assertValidKind(text) ==
  LET trimmed == Trim(text) IN
  /\ trimmed # <<>>
  /\ text = trimmed
  /\ text \notin {<<".">>, <<".", ".">>}
  /\ \A i \in 1..Len(text) : text[i] \notin {"/", "\\"}

\* The texts of the two kinds of the model.
KindText == [src |-> <<"s", "r", "c">>, sink |-> <<"s", "i", "n", "k">>]

\* Kind texts offered to createExecutor.
KindTexts ==
  { KindText["src"], KindText["sink"],
    <<>>, <<" ">>, <<"\t", " ">>, <<"\n">>,
    <<" ", "s", "r", "c">>, <<"s", "r", "c", " ">>, <<"s", "r", "c", "\n">>,
    <<"\t", "s", "i", "n", "k">>,
    <<".">>, <<".", ".">>,
    <<"s", "r", "c", "/", "x">>, <<"/", "s", "r", "c">>, <<"s", "r", "c", "\\", "x">>,
    <<".", ".", "/", "s", "r", "c">> }

NoReg == [text |-> <<>>, threw |-> FALSE]

VARIABLES
  registry,   \* this.executors: kind -> registered deps and fn
  handles,    \* executors returned by createExecutor (each keeps its own deps and fn)
  cleanTempOnError,
  store,      \* published artifact directories, by fingerprint
  temps,      \* scratch directories .tmp-<dataId>-<nonce>, by the call that made them
  calls,      \* call frames
  fnCalls,    \* how often fn has been invoked for each fingerprint
  renames,    \* how often a rename onto each artifact path has succeeded
  lastRet,    \* last path a top-level execute returned for each fingerprint
  pre,        \* store and counters when the latest top-level operation started
  ops,        \* top-level operations started so far
  regs,       \* createExecutor calls made after construction
  ids,        \* generateDataId / buildDataPath applied to a pair of inputs
  lastReg,    \* the kind text of the latest createExecutor call, and whether it threw
  scan,       \* listFsDataNodes in progress: names read, nodes collected
  stray       \* symlinks createDepLink has made at paths outside a data-space

vars == <<registry, handles, cleanTempOnError, store, temps, calls, fnCalls,
          renames, lastRet, pre, ops, regs, ids, lastReg, scan, stray>>

\* const dataId = generateDataId(kind, input) of the call in frame c.
Fp(c) == DataId(calls[c].kind, calls[c].input)

Snapshot == [store |-> store, temps |-> temps, fnCalls |-> fnCalls, lastRet |-> lastRet]

InitEngine ==
  /\ store = [f \in Fps |-> NoDir]
  /\ temps = [c \in Calls |-> NoDir]
  /\ calls = [c \in Calls |-> IdleFrame]
  /\ fnCalls = [f \in Fps |-> 0]
  /\ renames = [f \in Fps |-> 0]
  /\ lastRet = [f \in Fps |-> NoPath]
  /\ pre = Snapshot
  /\ ops = 0
  /\ regs = 0
  /\ lastReg = NoReg
  /\ scan = NoScan
  /\ stray = {}

InitCommon == InitEngine /\ ids = NoIds

\* The registrations explored: at most one of the two executors departs from
\* the plain one (FnOut), and the parent that mounts one dependency twice is
\* explored with plain executors.
Explored(sf, kf, kd) ==
  /\ sf = FnOut \/ kf \in {FnOut, FnMount}
  /\ kd = DepsTwice => (sf = FnOut /\ kf = FnOut)

\* After construction and one createExecutor per kind.
Init ==
  /\ cleanTempOnError \in BOOLEAN
  /\ \E sf \in SrcFns, kf \in SinkFns, kd \in DepsOf("sink") :
       /\ Explored(sf, kf, kd)
       /\ registry = [k \in Kinds |->
                        IF k = "src" THEN [reg |-> TRUE, deps |-> NoDeps, fn |-> sf]
                        ELSE [reg |-> TRUE, deps |-> kd, fn |-> kf]]
       /\ handles = {Handle("src", NoDeps, sf), Handle("sink", kd, kf)}
  /\ InitCommon

(***************************************************************************)
(* Helpers on frames.                                                      *)
(***************************************************************************)
Set(c, f) == [calls EXCEPT ![c] = f]

\* A slot is free when no call runs in it and no dependency task still
\* refers to the scratch directory of the call that ran in it.
FreeSlot(c) == calls[c].op = "idle" /\ \A d \in Calls : calls[d].parent # c
FreeSlots == {c \in Calls : FreeSlot(c)}
Lowest(S) == CHOOSE c \in S : \A d \in S : c <= d

RECURSIVE SortedSlots(_)
SortedSlots(S) == IF S = {} THEN <<>> ELSE <<Lowest(S)>> \o SortedSlots(S \ {Lowest(S)})

Quiescent == \A c \in Calls : calls[c].op = "idle"

\* Promise.all in processDeps is still pending on the task of frame f.
ParentWaiting(f) == f.parent # 0 /\ calls[f.parent].pc = "waitDeps"

\* The frame of call f once its execute / get / remove settles with result r:
\* a top-level call shows the result to its caller, a dependency call goes on
\* in processDeps (createDepLink) or hands the result to recoverInvalidDeps.
Settle(f, r) ==
  CASE f.role = "top" ->
         [f EXCEPT !.pc = IF r.ok THEN "done" ELSE "failed", !.res = r]
    [] f.role = "mount" ->
         IF r.ok THEN [f EXCEPT !.pc = "depLink", !.res = r]
         ELSE IF ParentWaiting(f) THEN [f EXCEPT !.pc = "taskFailed", !.res = r]
         ELSE IdleFrame
    [] OTHER ->
         [f EXCEPT !.pc = IF r.ok THEN "taskDone" ELSE "taskFailed", !.res = r]

\* A dependency lookup that keeps the executor a kind was first registered
\* with: the deps and fn of a handle that createExecutor returned earlier.
DepCallFirstRegistered(cfg, skip, role, parent) ==
  LET old == {h \in handles : h.kind = cfg.kind /\ h # Handle(cfg.kind, registry[cfg.kind].deps,
                                                               registry[cfg.kind].fn)}
      h == IF old = {} THEN Handle(cfg.kind, registry[cfg.kind].deps, registry[cfg.kind].fn)
           ELSE CHOOSE x \in old : TRUE IN
  [IdleFrame EXCEPT !.op = "execute", !.pc = "probe", !.kind = cfg.kind, !.input = cfg.input,
                    !.skipCache = skip, !.deps = h.deps, !.fn = h.fn, !.role = role,
                    !.parent = parent, !.mount = cfg.path,
                    !.pfp = DataId(calls[parent].kind, calls[parent].input)]

NewCall(op, kind, input, skip, deps, fn, role, parent, mount) ==
  [IdleFrame EXCEPT !.op = op, !.pc = IF op = "remove" THEN "rmBegin" ELSE "probe",
                    !.kind = kind, !.input = input, !.skipCache = skip,
                    !.deps = deps, !.fn = fn, !.role = role, !.parent = parent,
                    !.mount = mount]

\* The dependency call processDeps / recoverInvalidDeps starts for config cfg:
\* it runs the registered executor of that kind, or fails at once when the
\* kind is not registered (processDeps only).
DepCall(cfg, skip, role, parent) ==
  LET registered == registry[cfg.kind]
      pfp == DataId(calls[parent].kind, calls[parent].input) IN
  IF registered.reg
  THEN [NewCall("execute", cfg.kind, cfg.input, skip, registered.deps, registered.fn,
                role, parent, cfg.path) EXCEPT !.pfp = pfp]
  ELSE [NewCall("execute", cfg.kind, cfg.input, skip, NoDeps, FnThrow, role, parent, cfg.path)
          EXCEPT !.pc = "taskFailed", !.res = Err("ExecutorNotFound"), !.pfp = pfp]

Children(c) == {d \in Calls : calls[d].op # "idle" /\ calls[d].parent = c}

(***************************************************************************)
(* Top-level operations.                                                   *)
(***************************************************************************)
\* createExecutor on a kind text: assertValidKind, this.executors.set, and
\* the returned handle.
CreateExecutorText(text, deps, fn) ==
  /\ regs < MaxRegs
  /\ regs' = regs + 1
  /\ lastReg' = [text |-> text, threw |-> ~assertValidKind(text)]
  /\ IF assertValidKind(text)
     THEN LET kind == Flat(text) IN
          /\ registry' = [k \in DOMAIN registry \cup {kind} |->
                            IF k = kind THEN [reg |-> TRUE, deps |-> deps, fn |-> fn]
                            ELSE registry[k]]
          /\ handles' = handles \cup {Handle(kind, deps, fn)}
     ELSE UNCHANGED <<registry, handles>>
  /\ UNCHANGED <<ids, stray, scan, cleanTempOnError, store, temps, calls, fnCalls, renames,
                 lastRet, pre, ops>>

\* createExecutor on one of the two kinds of the model.
CreateExecutor(kind, deps, fn) == CreateExecutorText(KindText[kind], deps, fn)

StartTop(f) ==
  /\ ops < MaxOps
  /\ FreeSlots # {}
  /\ calls' = Set(Lowest(FreeSlots), f)
  /\ ops' = ops + 1
  /\ pre' = Snapshot
  /\ UNCHANGED <<ids, stray, lastReg, scan, registry, handles, cleanTempOnError, store, temps, fnCalls, renames,
                 lastRet, regs>>

\* executor({input, skipCache}) on a handle: this.execute(kind, params, deps, fn).
StartExecute(h, input, skip) ==
  StartTop(NewCall("execute", h.kind, input, skip, h.deps, h.fn, "top", 0, EntryEmpty))

\* engine.get(kind, input)
StartGet(kind, input) ==
  StartTop(NewCall("get", kind, input, FALSE, NoDeps, FnThrow, "top", 0, EntryEmpty))

\* engine.remove(kind, input)
StartRemove(kind, input) ==
  StartTop(NewCall("remove", kind, input, FALSE, NoDeps, FnThrow, "top", 0, EntryEmpty))

\* The caller receives the settled promise of a top-level call.
Return(c) ==
  /\ calls[c].role = "top"
  /\ calls[c].pc \in {"done", "failed"}
  /\ lastRet' = IF calls[c].op = "execute" /\ calls[c].res.ok
                THEN [lastRet EXCEPT ![Fp(c)] = calls[c].res.path]
                ELSE lastRet
  /\ calls' = Set(c, IdleFrame)
  /\ UNCHANGED <<ids, stray, lastReg, scan, registry, handles, cleanTempOnError, store, temps, fnCalls, renames,
                 pre, ops, regs>>

(***************************************************************************)
(* Steps of execute / get: the cache probe.                                *)
(***************************************************************************)
FsOnly == <<ids, stray, lastReg, scan, registry, handles, cleanTempOnError, fnCalls, renames, lastRet, pre, ops, regs>>

\* A probe that answers from the paths the process has returned before and
\* looks at the store only for fingerprints it has never returned.
ProbeMemo(c) ==
  /\ calls[c].pc = "probe"
  /\ LET f == calls[c] IN
     calls' = Set(c,
       IF f.op = "execute" /\ ~f.skipCache /\ lastRet[Fp(c)] # NoPath
       THEN Settle([f EXCEPT !.took = "hit"], Ok(lastRet[Fp(c)]))
       ELSE IF fsDataExists(store[Fp(c)])
       THEN IF f.op = "execute" /\ f.skipCache
            THEN [f EXCEPT !.pc = "rmBegin", !.took = "force"]
            ELSE [f EXCEPT !.pc = "readLink"]
       ELSE IF f.op = "get" THEN Settle(f, Ok(NoPath))
            ELSE [f EXCEPT !.pc = "mkTemp", !.took = "miss"])
  /\ UNCHANGED <<store, temps>> /\ UNCHANGED FsOnly

\* A probe that takes the cached artifact whatever skipCache says.
ProbeIgnoresSkipCache(c) ==
  /\ calls[c].pc = "probe"
  /\ LET f == calls[c] IN
     calls' = Set(c,
       IF fsDataExists(store[Fp(c)]) THEN [f EXCEPT !.pc = "readLink"]
       ELSE IF f.op = "get" THEN Settle(f, Ok(NoPath))
            ELSE [f EXCEPT !.pc = "mkTemp", !.took = "miss"])
  /\ UNCHANGED <<store, temps>> /\ UNCHANGED FsOnly

\* await fsDataExists(dataPath) in execute and in get.
Probe(c) ==
  /\ calls[c].pc = "probe"
  /\ LET f == calls[c] IN
     calls' = Set(c,
       IF fsDataExists(store[Fp(c)])
       THEN IF f.op = "execute" /\ f.skipCache
            THEN [f EXCEPT !.pc = "rmBegin", !.took = "force"]
            ELSE [f EXCEPT !.pc = "readLink"]
       ELSE IF f.op = "get" THEN Settle(f, Ok(NoPath))
            ELSE [f EXCEPT !.pc = "mkTemp", !.took = "miss"])
  /\ UNCHANGED <<store, temps>> /\ UNCHANGED FsOnly

\* What execute / get do when tryReadEntryPath returns null.
EntryUnreadable(f) ==
  IF f.op = "get" THEN Settle(f, Ok(NoPath))
  ELSE [f EXCEPT !.pc = "rmBegin", !.took = "corrupt"]

\* tryReadEntryPath: await readDataLink(dataPath)
ReadLink(c) ==
  /\ calls[c].pc = "readLink"
  /\ LET f == calls[c]
         r == readDataLink(Fp(c), store[Fp(c)]) IN
     calls' = Set(c, IF r.err # "" THEN EntryUnreadable(f)
                     ELSE [f EXCEPT !.pc = "statEntry", !.cached = r.path])
  /\ UNCHANGED <<store, temps>> /\ UNCHANGED FsOnly

\* tryReadEntryPath: await fs.stat(entryPath); on a hit, execute goes on to
\* recoverInvalidDeps when deps are declared and returns cachedEntry.
StatEntry(c) ==
  /\ calls[c].pc = "statEntry"
  /\ LET f == calls[c] IN
     calls' = Set(c,
       IF ~PathExists(store, Fp(c), f.cached.segs, Fuel) THEN EntryUnreadable(f)
       ELSE IF f.op = "get" THEN Settle(f, Ok(f.cached))
       ELSE IF f.deps # NoDeps
            THEN [f EXCEPT !.pc = "recCheck", !.took = "hit", !.todo = f.deps]
            ELSE Settle([f EXCEPT !.took = "hit"], Ok(f.cached)))
  /\ UNCHANGED <<store, temps>> /\ UNCHANGED FsOnly

(***************************************************************************)
(* removeDir(dataPath): fs.rm recursive is not atomic.  It lists the       *)
(* directory, removes the listed members one by one and then removes the   *)
(* directory itself; every error is swallowed.                             *)
(***************************************************************************)
AfterRemoveDir(f) ==
  IF f.op = "remove" THEN Settle(f, Ok(NoPath)) ELSE [f EXCEPT !.pc = "mkTemp"]

\* A removeDir without force: it throws when the directory is absent.
RmBeginNoForce(c) ==
  /\ calls[c].pc = "rmBegin"
  /\ LET f == calls[c]
         d == store[Fp(c)] IN
     calls' = Set(c, IF ~d.exists THEN Settle(f, Err("ENOENT"))
                     ELSE IF Members(d) = {} THEN [f EXCEPT !.pc = "rmDir"]
                     ELSE [f EXCEPT !.pc = "rmChild", !.rmLeft = Members(d)])
  /\ UNCHANGED <<store, temps>> /\ UNCHANGED FsOnly

RmBegin(c) ==
  /\ calls[c].pc = "rmBegin"
  /\ LET f == calls[c]
         d == store[Fp(c)] IN
     calls' = Set(c, IF ~d.exists THEN AfterRemoveDir(f)
                     ELSE IF Members(d) = {} THEN [f EXCEPT !.pc = "rmDir"]
                     ELSE [f EXCEPT !.pc = "rmChild", !.rmLeft = Members(d)])
  /\ UNCHANGED <<store, temps>> /\ UNCHANGED FsOnly

RmChild(c) ==
  /\ calls[c].pc = "rmChild"
  /\ \E m \in calls[c].rmLeft :
       /\ store' = [store EXCEPT ![Fp(c)] = RemoveMember(@, m)]
       /\ calls' = Set(c, [calls[c] EXCEPT !.rmLeft = @ \ {m},
                                           !.pc = IF calls[c].rmLeft = {m} THEN "rmDir"
                                                  ELSE "rmChild"])
  /\ UNCHANGED temps /\ UNCHANGED FsOnly

RmDir(c) ==
  /\ calls[c].pc = "rmDir"
  /\ store' = [store EXCEPT ![Fp(c)] = IF @.exists /\ Members(@) = {} THEN NoDir ELSE @]
  /\ calls' = Set(c, AfterRemoveDir(calls[c]))
  /\ UNCHANGED temps /\ UNCHANGED FsOnly

(***************************************************************************)
(* The miss path: scratch directory, dependencies, fn, manifest, dataLink, *)
(* rename.                                                                 *)
(***************************************************************************)
\* buildTempPath and the two fs.mkdir calls (the nonce is taken to be fresh).
MkTemp(c) ==
  /\ calls[c].pc = "mkTemp"
  /\ temps' = [temps EXCEPT ![c] = [EmptyDir EXCEPT !.ws = TRUE, !.tmpOf = Fp(c)]]
  /\ calls' = Set(c, [calls[c] EXCEPT !.pc = IF calls[c].deps # NoDeps THEN "deps" ELSE "fn"])
  /\ UNCHANGED store /\ UNCHANGED FsOnly

\* processDeps: entries.map starts one task per declared dependency; each
\* looks up the registry and calls this.execute.
ProcessDeps(c) ==
  /\ calls[c].pc = "deps"
  /\ LET f == calls[c]
         slots == SortedSlots(FreeSlots)
         n == Len(f.deps) IN
     /\ Len(slots) >= n
     /\ calls' = [d \in Calls |->
                    IF d = c THEN [f EXCEPT !.pc = "waitDeps"]
                    ELSE IF \E i \in 1..n : slots[i] = d
                         THEN LET i == CHOOSE i \in 1..n : slots[i] = d IN
                              DepCall(f.deps[i], f.deps[i].skipCache, "mount", c)
                         ELSE calls[d]]
  /\ UNCHANGED <<store, temps>> /\ UNCHANGED FsOnly

\* createDepLink: mkdir -p of the mount's parent directory, then fs.symlink
\* (which fails with EEXIST when something is already at that path).
createDepLink(d, name, target) ==
  LET made == [d EXCEPT !.exists = TRUE, !.ws = TRUE] IN
  IF name = "." \/ made.mounts[name] # NoMountLink \/ name \in made.files
  THEN [err |-> "EEXIST", dir |-> made]
  ELSE [err |-> "", dir |-> [made EXCEPT !.mounts[name] = target]]

\* A processDeps task after its execute has returned: safeResolveWithin and
\* createDepLink in the parent's scratch data-space (a symlink made at a path
\* outside data-space is kept in stray).
DepLink(c) ==
  /\ calls[c].pc = "depLink"
  /\ LET f == calls[c]
         p == f.parent
         waiting == ParentWaiting(f) IN
     IF ~safeResolveWithin(f.mount)
     THEN /\ calls' = Set(c, IF waiting
                             THEN [f EXCEPT !.pc = "taskFailed", !.res = Err("InvalidDepPath")]
                             ELSE IdleFrame)
          /\ UNCHANGED <<temps, stray>>
     ELSE IF Outside(f.mount)
     THEN /\ stray' = stray \cup {Normalize(f.mount.segs)}
          /\ calls' = Set(c, IF waiting THEN [f EXCEPT !.pc = "taskDone"] ELSE IdleFrame)
          /\ UNCHANGED temps
     ELSE LET r == createDepLink(temps[p], MountName(f.mount),
                                 computeDepLinkTarget(Normalize(f.mount.segs), Fp(c))) IN
          /\ temps' = [temps EXCEPT ![p] = [r.dir EXCEPT !.tmpOf = f.pfp]]
          /\ calls' = Set(c, IF ~waiting THEN IdleFrame
                             ELSE IF r.err # ""
                                  THEN [f EXCEPT !.pc = "taskFailed", !.res = Err(r.err)]
                                  ELSE [f EXCEPT !.pc = "taskDone"])
          /\ UNCHANGED stray
  /\ UNCHANGED <<store, ids, lastReg, scan, registry, handles, cleanTempOnError, fnCalls, renames, lastRet,
                 pre, ops, regs>>

\* await Promise.all(...) resolves: every task has mounted its dependency.
DepsDone(c) ==
  /\ calls[c].pc = "waitDeps"
  /\ \A d \in Children(c) : calls[d].pc = "taskDone"
  /\ calls' = [d \in Calls |-> IF d = c THEN [calls[c] EXCEPT !.pc = "fn"]
                               ELSE IF d \in Children(c) THEN IdleFrame ELSE calls[d]]
  /\ UNCHANGED <<store, temps>> /\ UNCHANGED FsOnly

\* await Promise.all(...) rejects with the error of a failed task; the other
\* tasks keep running.
DepsFailed(c) ==
  /\ calls[c].pc = "waitDeps"
  /\ \E x \in Children(c) :
       /\ calls[x].pc = "taskFailed"
       /\ calls' = [d \in Calls |->
                      IF d = c THEN [calls[c] EXCEPT !.pc = "catch", !.res = calls[x].res]
                      ELSE IF d \in Children(c) /\ calls[d].pc \in {"taskDone", "taskFailed"}
                           THEN IdleFrame ELSE calls[d]]
  /\ UNCHANGED <<store, temps>> /\ UNCHANGED FsOnly

\* await fn(input, dataSpacePath); the metadata fn returns is different in
\* every run (the ordinal of the run).
RunFn(c) ==
  /\ calls[c].pc = "fn"
  /\ LET f == calls[c]
         n == fnCalls[Fp(c)] + 1 IN
     /\ fnCalls' = [fnCalls EXCEPT ![Fp(c)] = n]
     /\ IF f.fn.throws
        THEN /\ calls' = Set(c, [f EXCEPT !.pc = "catch", !.ran = @ + 1, !.res = Err("FnError")])
             /\ UNCHANGED temps
        ELSE /\ calls' = Set(c, [f EXCEPT !.pc = "writeManifest", !.ran = @ + 1,
                                          !.entry = f.fn.entry, !.meta = n])
             /\ temps' = [temps EXCEPT ![c] =
                            [@ EXCEPT !.files = @ \cup f.fn.writes,
                                      !.mounts = [m \in MountNames |->
                                                    IF f.fn.links[m] # NoMountLink
                                                    THEN f.fn.links[m] ELSE @[m]],
                                      !.ver = n]]
  /\ UNCHANGED <<ids, stray, lastReg, scan, registry, handles, cleanTempOnError, store, renames, lastRet, pre, ops, regs>>

\* new Date() in createManifest.  Timestamps are only ever compared between
\* descriptors written for one artifact path, and the clock is read as the
\* number of fn runs for that fingerprint that have ended: it ticks at least
\* once while fn runs.
Now(fp) == fnCalls[fp]

\* An execute that goes from the descriptor straight to the rename.
WriteManifestThenRename(c) ==
  /\ calls[c].pc = "writeManifest"
  /\ temps' = [temps EXCEPT ![c] = [@ EXCEPT !.manifest =
                  createManifest(calls[c].kind, calls[c].input, calls[c].meta, Now(Fp(c)))]]
  /\ calls' = Set(c, [calls[c] EXCEPT !.pc = "rename"])
  /\ UNCHANGED store /\ UNCHANGED FsOnly

\* await writeManifest(tempPath, createManifest(kind, input, metadata))
WriteManifest(c) ==
  /\ calls[c].pc = "writeManifest"
  /\ temps' = [temps EXCEPT ![c] = [@ EXCEPT !.manifest =
                  createManifest(calls[c].kind, calls[c].input, calls[c].meta, Now(Fp(c)))]]
  /\ calls' = Set(c, [calls[c] EXCEPT !.pc = "createLink"])
  /\ UNCHANGED store /\ UNCHANGED FsOnly

\* A createDataLink that joins the entry to data-space without checking it.
CreateDataLinkUnchecked(c) ==
  /\ calls[c].pc = "createLink"
  /\ LET f == calls[c] IN
     IF f.entry.abs \/ f.entry.segs = <<>>
     THEN /\ calls' = Set(c, [f EXCEPT !.pc = "catch", !.res = Err("InvalidEntry")])
          /\ UNCHANGED temps
     ELSE /\ temps' = [temps EXCEPT ![c] = [@ EXCEPT !.link =
                         Normalize(<<DATA_SPACE_DIRNAME>> \o f.entry.segs)]]
          /\ calls' = Set(c, [f EXCEPT !.pc = "rename"])
  /\ UNCHANGED store /\ UNCHANGED FsOnly

\* await createDataLink(tempPath, result.entry)
CreateDataLink(c) ==
  /\ calls[c].pc = "createLink"
  /\ LET f == calls[c] IN
     IF ~assertSafeRelativePath(f.entry)
     THEN /\ calls' = Set(c, [f EXCEPT !.pc = "catch", !.res = Err("InvalidEntry")])
          /\ UNCHANGED temps
     ELSE /\ temps' = [temps EXCEPT ![c] = [@ EXCEPT !.link =
                         Normalize(<<DATA_SPACE_DIRNAME>> \o f.entry.segs)]]
          /\ calls' = Set(c, [f EXCEPT !.pc = "rename"])
  /\ UNCHANGED store /\ UNCHANGED FsOnly

\* A rename that replaces whatever is at the target.
RenameOverwrites(target) == target.exists \/ ~target.exists

\* fs.rename(tempPath, targetPath) succeeds when nothing, or an empty
\* directory, is at the target.
RenameSucceeds(target) == ~target.exists \/ Members(target) = {}

\* A publish that tries the rename again for as long as the target exists.
AtomicRenameRetry(c) ==
  /\ calls[c].pc = "rename"
  /\ IF RenameSucceeds(store[Fp(c)])
     THEN /\ store' = [store EXCEPT ![Fp(c)] = [temps[c] EXCEPT !.tmpOf = <<>>]]
          /\ temps' = [temps EXCEPT ![c] = NoDir]
          /\ renames' = [renames EXCEPT ![Fp(c)] = @ + 1]
          /\ calls' = Set(c, [calls[c] EXCEPT !.pc = "readResult", !.renamed = "won"])
     ELSE /\ calls' = Set(c, [calls[c] EXCEPT !.renamed = "lost"])
          /\ UNCHANGED <<store, temps, renames>>
  /\ UNCHANGED <<ids, stray, lastReg, scan, registry, handles, cleanTempOnError, fnCalls, lastRet, pre, ops, regs>>

\* await atomicRename(tempPath, dataPath)
AtomicRename(c) ==
  /\ calls[c].pc = "rename"
  /\ IF RenameSucceeds(store[Fp(c)])
     THEN /\ store' = [store EXCEPT ![Fp(c)] = [temps[c] EXCEPT !.tmpOf = <<>>]]
          /\ temps' = [temps EXCEPT ![c] = NoDir]
          /\ renames' = [renames EXCEPT ![Fp(c)] = @ + 1]
          /\ calls' = Set(c, [calls[c] EXCEPT !.pc = "readResult", !.renamed = "won"])
     ELSE /\ calls' = Set(c, [calls[c] EXCEPT !.pc = "rmLoser", !.renamed = "lost"])
          /\ UNCHANGED <<store, temps, renames>>
  /\ UNCHANGED <<ids, stray, lastReg, scan, registry, handles, cleanTempOnError, fnCalls, lastRet, pre, ops, regs>>

\* A loser that moves its own descriptor over the published one before it
\* removes its scratch directory.
RmLoserKeepsManifest(c) ==
  /\ calls[c].pc = "rmLoser"
  /\ store' = [store EXCEPT ![Fp(c)] =
                 IF @.exists THEN [@ EXCEPT !.manifest = temps[c].manifest] ELSE @]
  /\ temps' = [temps EXCEPT ![c] = NoDir]
  /\ calls' = Set(c, [calls[c] EXCEPT !.pc = "readResult"])
  /\ UNCHANGED FsOnly

\* A loser that leaves its scratch directory where it is.
RmLoserLeavesScratch(c) ==
  /\ calls[c].pc = "rmLoser"
  /\ calls' = Set(c, [calls[c] EXCEPT !.pc = "readResult"])
  /\ UNCHANGED <<store, temps>> /\ UNCHANGED FsOnly

\* if (!renamed) await removeDir(tempPath)
RmLoser(c) ==
  /\ calls[c].pc = "rmLoser"
  /\ temps' = [temps EXCEPT ![c] = NoDir]
  /\ calls' = Set(c, [calls[c] EXCEPT !.pc = "readResult"])
  /\ UNCHANGED store /\ UNCHANGED FsOnly

\* return readDataLink(dataPath)
ReadResult(c) ==
  /\ calls[c].pc = "readResult"
  /\ LET f == calls[c]
         r == readDataLink(Fp(c), store[Fp(c)]) IN
     calls' = Set(c, IF r.err # "" THEN [f EXCEPT !.pc = "catch", !.res = Err(r.err)]
                     ELSE Settle(f, Ok(r.path)))
  /\ UNCHANGED <<store, temps>> /\ UNCHANGED FsOnly

\* A catch block that rethrows without looking at cleanTempOnError.
CatchKeepsScratch(c) ==
  /\ calls[c].pc = "catch"
  /\ calls' = Set(c, Settle(calls[c], calls[c].res))
  /\ UNCHANGED <<store, temps>> /\ UNCHANGED FsOnly

\* catch (err): removeDir(tempPath) when cleanTempOnError, then rethrow.
Catch(c) ==
  /\ calls[c].pc = "catch"
  /\ temps' = IF cleanTempOnError THEN [temps EXCEPT ![c] = NoDir] ELSE temps
  /\ calls' = Set(c, Settle(calls[c], calls[c].res))
  /\ UNCHANGED store /\ UNCHANGED FsOnly

(***************************************************************************)
(* The hit path: recoverInvalidDeps, one declared dependency at a time.    *)
(***************************************************************************)
\* The loop moves on to the next entry of deps, or execute returns cachedEntry.
NextDep(f) ==
  IF Tail(f.todo) = NoDeps THEN Settle([f EXCEPT !.todo = NoDeps], Ok(f.cached))
  ELSE [f EXCEPT !.pc = "recCheck", !.todo = Tail(f.todo)]

\* needRecover: this.executors.get(config.kind), and when it is registered
\* this.execute on the dependency with skipCache false.
NeedRecover(c, f) ==
  IF ~registry[Head(f.todo).kind].reg THEN Set(c, NextDep(f))
  ELSE [d \in Calls |->
          IF d = c THEN [f EXCEPT !.pc = "recWait"]
          ELSE IF d = Lowest(FreeSlots) THEN DepCall(Head(f.todo), FALSE, "recover", c)
          ELSE calls[d]]

\* A recovery check that re-executes, with skipCache, every dependency whose
\* config carries skipCache, valid mount or not.
RecCheckHonoursSkipCache(c) ==
  /\ calls[c].pc = "recCheck"
  /\ FreeSlots # {}
  /\ LET f == calls[c]
         cfg == Head(f.todo)
         d == store[Fp(c)] IN
     calls' =
       IF ~safeResolveWithin(cfg.path) THEN Set(c, Settle(f, Err("InvalidDepPath")))
       ELSE IF cfg.skipCache
       THEN [x \in Calls |->
               IF x = c THEN [f EXCEPT !.pc = "recWait"]
               ELSE IF x = Lowest(FreeSlots) THEN DepCall(cfg, TRUE, "recover", c)
               ELSE calls[x]]
       ELSE LET name == MountName(cfg.path)
                expectedTarget == computeDepLinkTarget(Normalize(cfg.path.segs),
                                    DataId(cfg.kind, cfg.input))
                readable == /\ d.exists /\ d.ws /\ name \in MountNames
                            /\ d.mounts[name] # NoMountLink IN
            IF readable /\ d.mounts[name] = expectedTarget
            THEN Set(c, [f EXCEPT !.pc = "recStat"])
            ELSE NeedRecover(c, f)
  /\ UNCHANGED <<store, temps>> /\ UNCHANGED FsOnly

\* safeResolveWithin, computeDepLinkTarget and await fs.readlink(linkPath)
RecCheck(c) ==
  /\ calls[c].pc = "recCheck"
  /\ FreeSlots # {}
  /\ LET f == calls[c]
         cfg == Head(f.todo)
         d == store[Fp(c)] IN
     calls' =
       IF ~safeResolveWithin(cfg.path) THEN Set(c, Settle(f, Err("InvalidDepPath")))
       ELSE LET name == MountName(cfg.path)
                expectedTarget == computeDepLinkTarget(Normalize(cfg.path.segs),
                                    DataId(cfg.kind, cfg.input))
                readable == /\ d.exists /\ d.ws /\ name \in MountNames
                            /\ d.mounts[name] # NoMountLink IN
            IF readable /\ d.mounts[name] = expectedTarget
            THEN Set(c, [f EXCEPT !.pc = "recStat"])
            ELSE NeedRecover(c, f)
  /\ UNCHANGED <<store, temps>> /\ UNCHANGED FsOnly

\* await fs.stat(linkPath)
RecStat(c) ==
  /\ calls[c].pc = "recStat"
  /\ FreeSlots # {}
  /\ LET f == calls[c] IN
     calls' = IF MountResolves(store, store[Fp(c)], MountName(Head(f.todo).path))
              THEN Set(c, NextDep(f))
              ELSE NeedRecover(c, f)
  /\ UNCHANGED <<store, temps>> /\ UNCHANGED FsOnly

\* The awaited this.execute of the dependency settles.
RecResume(c) ==
  /\ calls[c].pc = "recWait"
  /\ \E x \in Children(c) :
       /\ calls[x].pc \in {"taskDone", "taskFailed"}
       /\ calls' = [d \in Calls |->
                      IF d = x THEN IdleFrame
                      ELSE IF d # c THEN calls[d]
                      ELSE IF calls[x].res.ok THEN [calls[c] EXCEPT !.pc = "recUnlink"]
                      ELSE Settle(calls[c], calls[x].res)]
  /\ UNCHANGED <<store, temps>> /\ UNCHANGED FsOnly

\* A recovery that does not unlink the stale mount.
RecUnlinkSkipped(c) ==
  /\ calls[c].pc = "recUnlink"
  /\ calls' = Set(c, [calls[c] EXCEPT !.pc = "recSymlink"])
  /\ UNCHANGED <<store, temps>> /\ UNCHANGED FsOnly

\* try { await fs.unlink(linkPath) } catch {}
RecUnlink(c) ==
  /\ calls[c].pc = "recUnlink"
  /\ LET name == MountName(Head(calls[c].todo).path) IN
     store' = [store EXCEPT ![Fp(c)] =
                 IF @.exists /\ @.ws /\ name \in MountNames
                 THEN [@ EXCEPT !.mounts[name] = NoMountLink] ELSE @]
  /\ calls' = Set(c, [calls[c] EXCEPT !.pc = "recSymlink"])
  /\ UNCHANGED temps /\ UNCHANGED FsOnly

\* A recovery that also rewrites updatedAt in the descriptor of the parent.
RecSymlinkTouchesManifest(c) ==
  /\ calls[c].pc = "recSymlink"
  /\ LET f == calls[c]
         cfg == Head(f.todo)
         r == createDepLink(store[Fp(c)], MountName(cfg.path),
                            computeDepLinkTarget(Normalize(cfg.path.segs),
                                                 DataId(cfg.kind, cfg.input))) IN
     /\ store' = [store EXCEPT ![Fp(c)] =
                    IF r.dir.manifest # NoManifest
                    THEN [r.dir EXCEPT !.manifest.updatedAt = @ + 1] ELSE r.dir]
     /\ calls' = Set(c, IF r.err # "" THEN Settle(f, Err(r.err)) ELSE NextDep(f))
  /\ UNCHANGED temps /\ UNCHANGED FsOnly

\* await createDepLink(linkPath, expectedFsDataPath)
RecSymlink(c) ==
  /\ calls[c].pc = "recSymlink"
  /\ LET f == calls[c]
         cfg == Head(f.todo) IN
     IF Outside(cfg.path)
     THEN /\ stray' = stray \cup {Normalize(cfg.path.segs)}
          /\ calls' = Set(c, NextDep(f))
          /\ UNCHANGED store
     ELSE LET r == createDepLink(store[Fp(c)], MountName(cfg.path),
                                 computeDepLinkTarget(Normalize(cfg.path.segs),
                                                      DataId(cfg.kind, cfg.input))) IN
          /\ store' = [store EXCEPT ![Fp(c)] = r.dir]
          /\ calls' = Set(c, IF r.err # "" THEN Settle(f, Err(r.err)) ELSE NextDep(f))
          /\ UNCHANGED stray
  /\ UNCHANGED <<temps, ids, lastReg, scan, registry, handles, cleanTempOnError, fnCalls, renames, lastRet,
                 pre, ops, regs>>

(***************************************************************************)
(* Specifications.                                                         *)
(***************************************************************************)
\* One step of some running call.
Step ==
  \E c \in Calls :
    \/ Probe(c) \/ ReadLink(c) \/ StatEntry(c)
    \/ RmBegin(c) \/ RmChild(c) \/ RmDir(c)
    \/ MkTemp(c) \/ ProcessDeps(c) \/ DepLink(c) \/ DepsDone(c) \/ DepsFailed(c)
    \/ RunFn(c) \/ WriteManifest(c) \/ CreateDataLink(c)
    \/ AtomicRename(c) \/ RmLoser(c) \/ ReadResult(c) \/ Catch(c)
    \/ RecCheck(c) \/ RecStat(c) \/ RecResume(c) \/ RecUnlink(c) \/ RecSymlink(c)
    \/ Return(c)

\* A caller that awaits each operation before it starts the next one.
SeqOp ==
  /\ Quiescent
  /\ \/ \E h \in handles, skip \in BOOLEAN :
          \E input \in InputsOf(h.kind) : StartExecute(h, input, skip)
     \/ \E k \in Kinds : \E input \in InputsOf(k) : StartGet(k, input)
     \/ \E k \in Kinds : \E input \in InputsOf(k) : StartRemove(k, input)

Next == SeqOp \/ Step

Spec == Init /\ [][Next]_vars

(***************************************************************************)
(* Concurrent callers: up to MaxPar top-level execute calls are in flight  *)
(* at once (fn is async, so the event loop interleaves their steps).       *)
(***************************************************************************)
TopsInFlight == {c \in Calls : calls[c].role = "top"}

\* The registrations explored with concurrent callers: a parent that mounts
\* one dependency, whose fn is plain, returns an entry it never created, or
\* throws.  Callers of the parent and callers of the dependency are explored.
ExploredConc(sf, kf, kd) ==
  /\ sf \in {FnOut, FnMissing, FnThrow}
  /\ kf = FnOut
  /\ kd = DepsV1

InitConc ==
  /\ cleanTempOnError = TRUE
  /\ \E sf \in SrcFns, kf \in SinkFns, kd \in DepsOf("sink") :
       /\ ExploredConc(sf, kf, kd)
       /\ registry = [k \in Kinds |->
                        IF k = "src" THEN [reg |-> TRUE, deps |-> NoDeps, fn |-> sf]
                        ELSE [reg |-> TRUE, deps |-> kd, fn |-> kf]]
       /\ handles = {Handle("src", NoDeps, sf), Handle("sink", kd, kf)}
  /\ InitCommon

\* The frames the calls in flight use at most: one each, and one for each
\* dependency they declare.
FramesReserved ==
  {p \in TopsInFlight \X (0..MaxCalls) : p[2] <= Len(calls[p[1]].deps)}

\* The first caller.
FirstOp ==
  /\ ops = 0
  /\ \E h \in handles, skip \in BOOLEAN :
       \E input \in InputsOf(h.kind) : StartExecute(h, input, skip)

\* A forced recompute of a plain executor without dependencies is explored
\* with a third caller.
Extra(h) ==
  IF /\ h.deps = NoDeps /\ h.fn = FnOut
     /\ Cardinality(TopsInFlight) = 2
     /\ \E c \in TopsInFlight : calls[c].skipCache
  THEN 1 ELSE 0

\* Another caller starts execute on the same (kind, input) in the same tick:
\* the calls in flight have not yet passed their first await.
ConcOp ==
  /\ \A c \in TopsInFlight : calls[c].pc = "probe"
  /\ \E h \in handles, c \in TopsInFlight :
       /\ ops < MaxConcOps + Extra(h) /\ Cardinality(TopsInFlight) < MaxPar + Extra(h)
       /\ calls[c].op = "execute" /\ calls[c].kind = h.kind
       /\ Cardinality(FramesReserved) + 1 + Len(h.deps) <= MaxCalls
       /\ StartExecute(h, calls[c].input, FALSE)

NextConc == FirstOp \/ ConcOp \/ Step

SpecConc == InitConc /\ [][NextConc]_vars

(***************************************************************************)
(* Re-registration: createExecutor is called again for a kind between two  *)
(* operations.  The handle returned earlier keeps its own deps and fn.     *)
(***************************************************************************)
\* The registrations explored: a parent that mounts one dependency, with a
\* plain or throwing dependency, and a parent whose entry is its mount.
ExploredReg(sf, kf, kd) ==
  /\ sf \in {FnOut, FnThrow}
  /\ kf \in {FnOut, FnMount}
  /\ sf = FnOut \/ kf = FnOut
  /\ kd = DepsV1

InitReg ==
  /\ cleanTempOnError = TRUE
  /\ \E sf \in SrcFns, kf \in SinkFns, kd \in DepsOf("sink") :
       /\ ExploredReg(sf, kf, kd)
       /\ registry = [k \in Kinds |->
                        IF k = "src" THEN [reg |-> TRUE, deps |-> NoDeps, fn |-> sf]
                        ELSE [reg |-> TRUE, deps |-> kd, fn |-> kf]]
       /\ handles = {Handle("src", NoDeps, sf), Handle("sink", kd, kf)}
  /\ InitCommon

RegOp ==
  /\ Quiescent
  /\ \E kd \in {DepsV2, DepsTwice} : CreateExecutor("sink", kd, registry["sink"].fn)

NextReg == SeqOp \/ RegOp \/ Step

SpecReg == InitReg /\ [][NextReg]_vars

(***************************************************************************)
(* Misconfigured registrations: a parent whose declared mount path is      *)
(* unsafe, and a parent whose dependency kind was never registered.  The   *)
(* parent can be registered again between operations, so that an artifact  *)
(* published under one declaration is hit under another.                   *)
(***************************************************************************)
Unregistered == [reg |-> FALSE, deps |-> NoDeps, fn |-> FnThrow]

ExploredCfg(srcReg, kd) ==
  \/ srcReg /\ kd \in {NoDeps, DepsV1, DepsSelf} \cup UnsafeDeps
  \/ ~srcReg /\ kd \in {NoDeps, DepsV1}

InitCfg ==
  /\ cleanTempOnError = TRUE
  /\ \E srcReg \in BOOLEAN, kd \in DepsOf("sink") \cup UnsafeDeps \cup {DepsSelf} :
       /\ ExploredCfg(srcReg, kd)
       /\ registry = [k \in Kinds |->
                        IF k = "src"
                        THEN IF srcReg THEN [reg |-> TRUE, deps |-> NoDeps, fn |-> FnOut]
                             ELSE Unregistered
                        ELSE [reg |-> TRUE, deps |-> kd, fn |-> FnOut]]
       /\ handles = {Handle("sink", kd, FnOut)}
                      \cup (IF srcReg THEN {Handle("src", NoDeps, FnOut)} ELSE {})
  /\ InitCommon

CfgOp ==
  /\ Quiescent
  /\ \E kd \in {DepsV1, DepsSelf} \cup UnsafeDeps :
       CreateExecutor("sink", kd, registry["sink"].fn)

NextCfg == SeqOp \/ CfgOp \/ Step

SpecCfg == InitCfg /\ [][NextCfg]_vars

(***************************************************************************)
(* Registration: createExecutor is called with kind texts, valid and       *)
(* invalid, on an engine that already has its two executors.               *)
(***************************************************************************)
InitKind ==
  /\ cleanTempOnError = TRUE
  /\ \E sf \in SrcFns, kf \in SinkFns, kd \in DepsOf("sink") :
       /\ registry = [k \in Kinds |->
                        IF k = "src" THEN [reg |-> TRUE, deps |-> NoDeps, fn |-> sf]
                        ELSE [reg |-> TRUE, deps |-> kd, fn |-> kf]]
       /\ handles = {Handle("src", NoDeps, sf), Handle("sink", kd, kf)}
  /\ InitCommon

KindOp == \E text \in KindTexts, kd \in {NoDeps, DepsV2} : CreateExecutorText(text, kd, FnOut)

NextKind == KindOp

SpecKind == InitKind /\ [][NextKind]_vars

(***************************************************************************)
(* A kind registered with registerDynamicExecutor: its deps are computed    *)
(* from the input by depsFn each time the wrapper is called.  Here "src" is *)
(* the dynamic kind and "sink" a static kind that depends on it.           *)
(***************************************************************************)
\* params.deps(input): input v=2 mounts the artifact of input v=1, input v=1
\* mounts nothing.
depsFn(input) == IF input = InputV2 THEN DepsV1 ELSE NoDeps

\* The wrapper of registerDynamicExecutor called directly: it registers
\* {kind, deps: depsFn(input), fn} in the engine and calls the executor it
\* got back, in one synchronous run.
StartDynamic(kind, input, skip) ==
  /\ ops < MaxOps
  /\ FreeSlots # {}
  /\ registry' = [registry EXCEPT ![kind] =
                    [reg |-> TRUE, deps |-> depsFn(input), fn |-> FnOut]]
  /\ lastReg' = [text |-> KindText[kind], threw |-> FALSE]
  /\ calls' = Set(Lowest(FreeSlots),
                  NewCall("execute", kind, input, skip, depsFn(input), FnOut, "top", 0,
                          EntryEmpty))
  /\ ops' = ops + 1
  /\ pre' = Snapshot
  /\ UNCHANGED <<ids, stray, scan, handles, cleanTempOnError, store, temps, fnCalls, renames,
                 lastRet, regs>>

\* After construction, registerExecutor for the static kind and
\* registerDynamicExecutor for the dynamic one (which leaves the engine's
\* registry alone until the wrapper is first called).
InitDyn ==
  /\ cleanTempOnError = TRUE
  /\ \E kd \in {DepsV1, DepsV2, DepsTwice} :
       /\ registry = [k \in Kinds |->
                        IF k = "src" THEN Unregistered
                        ELSE [reg |-> TRUE, deps |-> kd, fn |-> FnOut]]
       /\ handles = {Handle("sink", kd, FnOut)}
  /\ InitCommon

\* A caller that awaits each call of the wrapper.
DynOp ==
  /\ Quiescent
  /\ \E input \in InputsOf("src"), skip \in BOOLEAN : StartDynamic("src", input, skip)

\* The wrapper is called for another input in the same tick.
DynConcOp ==
  /\ Cardinality(TopsInFlight) = 1
  /\ \E c \in TopsInFlight :
       /\ calls[c].pc = "probe" /\ calls[c].op = "execute" /\ calls[c].kind = "src"
       /\ \E input \in InputsOf("src") \ {calls[c].input} : StartDynamic("src", input, FALSE)

\* The static kind is registered again with other deps.
DynRegOp ==
  /\ Quiescent
  /\ \E kd \in {DepsV2, DepsBoth} : CreateExecutor("sink", kd, FnOut)

NextDyn == SeqOp \/ DynOp \/ DynConcOp \/ DynRegOp \/ Step

SpecDyn == InitDyn /\ [][NextDyn]_vars

(***************************************************************************)
(* listFsDataNodes runs while the engine is used: it reads the kind        *)
(* directories, then for one kind after the other the directory names, and *)
(* reads a node for each name.                                             *)
(***************************************************************************)
EngineOnly == <<registry, handles, cleanTempOnError, store, temps, calls, fnCalls, renames,
                lastRet, pre, ops, regs, ids, lastReg, stray>>

\* kindDirs = await fsp.readdir(fsDataRoot)
ListBegin ==
  /\ scan.pc = "idle"
  /\ ops > 0
  /\ scan' = [NoScan EXCEPT !.pc = "kinds", !.kinds = Kinds, !.quiet = Quiescent, !.ops = ops]
  /\ UNCHANGED EngineOnly

\* The next kindDir: readdir of its shard directories.
ListKind ==
  /\ scan.pc = "kinds"
  /\ scan.todo = {}
  /\ \E k \in scan.kinds :
       scan' = [scan EXCEPT !.kinds = @ \ {k}, !.kind = k,
                            !.todo = ListedDirs(store, temps, k)]
  /\ UNCHANGED EngineOnly

\* A loop body that reads every listed directory where it was listed.
ListVisitInPlace ==
  /\ scan.pc = "kinds"
  /\ \E n \in scan.todo :
       LET d == IF n.prefix = "" THEN store[n.id] ELSE temps[n.nonce]
           node == [kind |-> scan.kind, dataId |-> n,
                    entryPath |-> readDataLink(n.id, d).path,
                    manifest |-> d.manifest, deps |-> discoverDepLinks(d)] IN
       scan' = [scan EXCEPT !.todo = @ \ {n},
                            !.nodes = IF fsDataExists(d) THEN @ \cup {node} ELSE @]
  /\ UNCHANGED EngineOnly

\* The loop body for one dataIdDir: names that start with ".tmp-" are
\* skipped, readFsDataNode is called for the others.
ListVisit ==
  /\ scan.pc = "kinds"
  /\ \E n \in scan.todo :
       IF n.prefix = TMP_PREFIX
       THEN scan' = [scan EXCEPT !.todo = @ \ {n}, !.skipped = @ \cup {n}]
       ELSE LET node == readFsDataNode(store, scan.kind, n) IN
            scan' = [scan EXCEPT !.todo = @ \ {n},
                                 !.nodes = IF node = NoNode THEN @ ELSE @ \cup {node}]
  /\ UNCHANGED EngineOnly

\* return nodes
ListEnd ==
  /\ scan.pc = "kinds"
  /\ scan.kinds = {} /\ scan.todo = {}
  /\ scan' = [scan EXCEPT !.pc = "done"]
  /\ UNCHANGED EngineOnly

MaxListOps == 2

ExploredList(sf, kf, kd) ==
  \/ sf = FnOut /\ kf = FnLinkOut /\ kd = DepsV1
  \/ sf = FnOut /\ kf = FnOut /\ kd = DepsTwice
  \/ sf = FnThrow /\ kf = FnOut /\ kd = DepsV1

InitList ==
  /\ cleanTempOnError = FALSE
  /\ \E sf \in SrcFns, kf \in SinkFns \cup {FnLinkOut}, kd \in DepsOf("sink") :
       /\ ExploredList(sf, kf, kd)
       /\ registry = [k \in Kinds |->
                        IF k = "src" THEN [reg |-> TRUE, deps |-> NoDeps, fn |-> sf]
                        ELSE [reg |-> TRUE, deps |-> kd, fn |-> kf]]
       /\ handles = {Handle("src", NoDeps, sf), Handle("sink", kd, kf)}
  /\ InitCommon

\* A caller that awaits each execute of the parent kind.
ListOp ==
  /\ ops < MaxListOps
  /\ Quiescent
  /\ \E h \in handles, skip \in BOOLEAN :
       h.kind = "sink" /\ \E input \in InputsOf(h.kind) : StartExecute(h, input, skip)

ListRegOp ==
  /\ Quiescent
  /\ registry["sink"].deps = DepsV1
  /\ CreateExecutor("sink", DepsBoth, registry["sink"].fn)

NextList == ListOp \/ ListRegOp \/ Step \/ ListBegin \/ ListKind \/ ListVisit \/ ListEnd

SpecList == InitList /\ [][NextList]_vars

(***************************************************************************)
(* Concurrent callers of a cached parent: the parent is built by a first   *)
(* execute, one of its mounts is then made invalid (its kind is registered *)
(* again with other dependencies, or the dependency artifact is removed,   *)
(* or the dependency's entry never existed), and callers of the parent     *)
(* start execute in the same tick.                                         *)
(***************************************************************************)
ExploredRec(sf, kf, kd) ==
  /\ sf \in {FnOut, FnMissing}
  /\ kf = FnOut
  /\ kd = DepsV1

InitRec ==
  /\ cleanTempOnError = TRUE
  /\ \E sf \in SrcFns, kf \in SinkFns, kd \in DepsOf("sink") :
       /\ ExploredRec(sf, kf, kd)
       /\ registry = [k \in Kinds |->
                        IF k = "src" THEN [reg |-> TRUE, deps |-> NoDeps, fn |-> sf]
                        ELSE [reg |-> TRUE, deps |-> kd, fn |-> kf]]
       /\ handles = {Handle("src", NoDeps, sf), Handle("sink", kd, kf)}
  /\ InitCommon

\* The first execute of the parent.
RecFirstOp ==
  /\ ops = 0
  /\ \E h \in handles : h.kind = "sink" /\ StartExecute(h, <<>>, FALSE)

\* createExecutor for the parent kind with another dependency declaration.
RecRegOp ==
  /\ Quiescent
  /\ ops = 1
  /\ \E kd \in {DepsV2, DepsBoth} : CreateExecutor("sink", kd, registry["sink"].fn)

\* engine.remove of the dependency artifact.
RecRemoveOp ==
  /\ Quiescent
  /\ ops = 1
  /\ StartRemove("src", InputV1)

\* A caller of the parent on the handle that is registered now: the first
\* when the engine is idle, the others in the same tick.
RecConcOp ==
  /\ ops >= 1
  /\ \A c \in TopsInFlight : calls[c].pc = "probe" /\ calls[c].kind = "sink"
  /\ Cardinality(TopsInFlight) < MaxPar
  /\ Cardinality(TopsInFlight) = 0 => Quiescent
  /\ \E h \in handles :
       /\ h.kind = "sink" /\ h.deps = registry["sink"].deps
       /\ StartExecute(h, <<>>, FALSE)

NextRec == RecFirstOp \/ RecRegOp \/ RecRemoveOp \/ RecConcOp \/ Step

SpecRec == InitRec /\ [][NextRec]_vars

(***************************************************************************)
(* Sibling dependencies: a parent declares two dependencies and the task   *)
(* of one of them fails while the other may still be running.  A parent    *)
(* with one dependency is explored beside it.                              *)
(***************************************************************************)
InitSib ==
  /\ cleanTempOnError = TRUE
  /\ \E kd \in {DepsOneUnsafe, DepsV1} :
       /\ registry = [k \in Kinds |->
                        IF k = "src" THEN [reg |-> TRUE, deps |-> NoDeps, fn |-> FnOut]
                        ELSE [reg |-> TRUE, deps |-> kd, fn |-> FnOut]]
       /\ handles = {Handle("src", NoDeps, FnOut), Handle("sink", kd, FnOut)}
  /\ InitCommon

NextSib == SeqOp \/ Step

SpecSib == InitSib /\ [][NextSib]_vars

(***************************************************************************)
(* Mutual mounts: the parent mounts the dependency, and the dependency's    *)
(* kind is registered again with a declaration that mounts the parent.      *)
(* Artifacts published under the first declaration are hit under the        *)
(* second, whose missing mount recoverInvalidDeps links.                    *)
(***************************************************************************)
InitCyc ==
  /\ cleanTempOnError = TRUE
  /\ \E sf \in {FnOut, FnThrow}, kd \in {DepsV1, DepsTwice} :
       /\ sf = FnThrow => kd = DepsV1
       /\ registry = [k \in Kinds |->
                        IF k = "src" THEN [reg |-> TRUE, deps |-> NoDeps, fn |-> sf]
                        ELSE [reg |-> TRUE, deps |-> kd, fn |-> FnOut]]
       /\ handles = {Handle("src", NoDeps, sf), Handle("sink", kd, FnOut)}
  /\ InitCommon

\* createExecutor for kind 'src' again, with another fn, or with
\* deps {in: sink.config({input: {}})}, or both: once, before the first
\* operation or after it.
CycRegOp ==
  /\ Quiescent
  /\ ops <= 1 /\ regs = 0
  /\ \E kd \in {NoDeps, DepsSelf}, fn \in {FnOut, FnMissing} :
       /\ kd # registry["src"].deps \/ fn # registry["src"].fn
       /\ CreateExecutor("src", kd, fn)

\* Non-forced execute calls on the handles, and remove of the dependency
\* artifact the parent mounts, one at a time.
CycOp ==
  /\ Quiescent
  /\ \/ \E h \in handles : \E input \in InputsOf(h.kind) : StartExecute(h, input, FALSE)
     \/ StartRemove("src", InputV1)

NextCyc == CycOp \/ CycRegOp \/ Step

SpecCyc == InitCyc /\ [][NextCyc]_vars

(***************************************************************************)
(* Termination: after a first execute of the parent, execute, forced       *)
(* execute and remove calls on the parent and on the dependency it mounts  *)
(* are started in the same tick.  The event loop runs every continuation   *)
(* that is ready, so the steps of the calls are weakly fair; whether and   *)
(* when a caller starts a call is not.                                     *)
(***************************************************************************)
InitLive ==
  /\ cleanTempOnError = TRUE
  /\ \E sf \in {FnOut, FnThrow} :
       /\ registry = [k \in Kinds |->
                        IF k = "src" THEN [reg |-> TRUE, deps |-> NoDeps, fn |-> sf]
                        ELSE [reg |-> TRUE, deps |-> DepsV1, fn |-> FnOut]]
       /\ handles = {Handle("src", NoDeps, sf), Handle("sink", DepsV1, FnOut)}
  /\ InitCommon

\* The first execute of the parent.
LiveFirstOp ==
  /\ ops = 0
  /\ \E h \in handles : h.kind = "sink" /\ StartExecute(h, <<>>, FALSE)

\* Two callers start execute (forced or not) or remove on the parent or on
\* the dependency it mounts: the first when the engine is idle after the
\* first execute, the second while the first has not passed its first await.
LiveOp ==
  /\ ops >= 1
  /\ \A c \in TopsInFlight : calls[c].pc \in {"probe", "rmBegin"}
  /\ TopsInFlight = {} => (Quiescent /\ ops = 1)
  /\ TopsInFlight # {} => ops = 2
  /\ \/ \E h \in handles, skip \in BOOLEAN :
          /\ Cardinality(FramesReserved) + 1 + Len(h.deps) <= MaxCalls
          /\ StartExecute(h, IF h.kind = "src" THEN InputV1 ELSE <<>>, skip)
     \/ \E k \in Kinds :
          /\ Cardinality(FramesReserved) + 1 <= MaxCalls
          /\ StartRemove(k, IF k = "src" THEN InputV1 ELSE <<>>)

NextLive == LiveFirstOp \/ LiveOp \/ Step

SpecLive == InitLive /\ [][NextLive]_vars /\ WF_vars(Step)

(***************************************************************************)
(* Fingerprints of a pair of inputs: the engine is idle, and               *)
(* generateDataId and buildDataPath are applied as execute, get and remove *)
(* apply them, to input a under two kinds and to input b.                  *)
(***************************************************************************)
InitId ==
  /\ cleanTempOnError = TRUE
  /\ registry = [k \in Kinds |-> [reg |-> TRUE, deps |-> NoDeps, fn |-> FnOut]]
  /\ handles = {Handle(k, NoDeps, FnOut) : k \in Kinds}
  /\ InitEngine
  /\ \E k \in Kinds, o \in Kinds, a \in IdInputs, b \in IdInputs :
       ids = [NoIds EXCEPT !.pc = "hash", !.kind = k, !.other = o, !.a = a, !.b = b]

HashInputs ==
  /\ ids.pc = "hash"
  /\ ids' = [ids EXCEPT !.pc = "path",
                        !.idA = generateDataIdOrThrow(ids.kind, ids.a).id,
                        !.errA = generateDataIdOrThrow(ids.kind, ids.a).err,
                        !.idB = generateDataIdOrThrow(ids.kind, ids.b).id,
                        !.errB = generateDataIdOrThrow(ids.kind, ids.b).err,
                        !.idOther = generateDataIdOrThrow(ids.other, ids.a).id]
  /\ UNCHANGED <<registry, handles, cleanTempOnError, store, temps, calls, fnCalls,
                 renames, lastRet, pre, ops, regs, stray, lastReg, scan>>

BuildPaths ==
  /\ ids.pc = "path"
  /\ ids' = [ids EXCEPT !.pc = "done",
                        !.pathA = IF ids.errA = "" THEN buildDataPath(ids.kind, ids.idA)
                                  ELSE <<>>,
                        !.pathB = IF ids.errB = "" THEN buildDataPath(ids.kind, ids.idB)
                                  ELSE <<>>]
  /\ UNCHANGED <<registry, handles, cleanTempOnError, store, temps, calls, fnCalls,
                 renames, lastRet, pre, ops, regs, stray, lastReg, scan>>

NextId == HashInputs \/ BuildPaths

SpecId == InitId /\ [][NextId]_vars

\* Fingerprints of inputs that JSON cannot represent: input a holds a
\* function or refers back to itself, input b is an ordinary input.
InitSer ==
  /\ cleanTempOnError = TRUE
  /\ registry = [k \in Kinds |-> [reg |-> TRUE, deps |-> NoDeps, fn |-> FnOut]]
  /\ handles = {Handle(k, NoDeps, FnOut) : k \in Kinds}
  /\ InitEngine
  /\ \E k \in Kinds, o \in Kinds, a \in OddInputs, b \in IdInputs :
       ids = [NoIds EXCEPT !.pc = "hash", !.kind = k, !.other = o, !.a = a, !.b = b]

SpecSer == InitSer /\ [][NextId]_vars

(***************************************************************************)
(* Properties.  pre is the store, the scratch directories, the fn counters *)
(* and the last returned paths as they were when the latest top-level      *)
(* operation started.                                                      *)
(***************************************************************************)
\* A top-level call has settled and its caller has not yet taken the result.
Ended(c) == calls[c].role = "top" /\ calls[c].pc \in {"done", "failed"}
EndedExecute(c) == Ended(c) /\ calls[c].op = "execute"

\* The part of a dataLink target below data-space.
EntryRel(d) == Tail(Normalize(d.link))

\* A dataLink target that stays inside data-space.
LinkInside(link) ==
  LET r == NormAcc(link, <<>>) IN r # <<>> /\ Head(r) = DATA_SPACE_DIRNAME

\* The mount target a dependency config calls for.
ExpectedTarget(cfg) ==
  computeDepLinkTarget(Normalize(cfg.path.segs), DataId(cfg.kind, cfg.input))

DepFp(cfg) == DataId(cfg.kind, cfg.input)

\* fn returns without throwing, with a safe entry that it created itself.
Creates(fn) ==
  /\ ~fn.throws
  /\ assertSafeRelativePath(fn.entry)
  /\ LET r == Normalize(fn.entry.segs) IN r = <<>> \/ (Len(r) = 1 /\ Head(r) \in fn.writes)

\* The entry of a published artifact is something its fn provided: the
\* data-space, a file fn wrote, or one of the mounts.
EntryProvided(d) ==
  /\ d.link # NoLink
  /\ LinkInside(d.link)
  /\ \/ EntryRel(d) = <<>>
     \/ Head(EntryRel(d)) \in d.files
     \/ Head(EntryRel(d)) \in MountNames /\ d.mounts[Head(EntryRel(d))] # NoMountLink

\* C1 (in the case where the entry exists): a sequential execute with
\* skipCache=false on a fingerprint whose artifact is published, with an
\* entry that exists inside its data-space, does not invoke fn again and
\* returns the path that was returned before.
C1_Idempotent ==
  \A c \in Calls :
    (/\ EndedExecute(c)
     /\ ~calls[c].skipCache
     /\ fsDataExists(pre.store[Fp(c)])
     /\ pre.store[Fp(c)].link # NoLink
     /\ LinkInside(pre.store[Fp(c)].link)
     /\ PathExists(pre.store, Fp(c), EntryRel(pre.store[Fp(c)]), Fuel))
    => /\ fnCalls[Fp(c)] = pre.fnCalls[Fp(c)]
       /\ calls[c].res.ok
       /\ pre.lastRet[Fp(c)] # NoPath => calls[c].res.path = pre.lastRet[Fp(c)]

C3_MountsResolveAtFn ==
  \A c \in Calls :
    calls[c].pc = "fn"
    => /\ Children(c) = {}
       /\ \A i \in 1..Len(calls[c].deps) :
            LET cfg == calls[c].deps[i] IN
            /\ temps[c].exists /\ temps[c].ws
            /\ temps[c].mounts[MountName(cfg.path)] = ExpectedTarget(cfg)
            /\ fsDataExists(store[DepFp(cfg)])
            /\ MountResolves(store, temps[c], MountName(cfg.path))

\* C3 (amended): whenever a call is about to invoke fn, every dependency
\* task has finished and every declared mount symlink is in the scratch
\* data-space with the target computeDepLinkTarget gives; and every mount of
\* a dependency whose fn created the entry it returned resolves through the
\* dependency's dataLink into a published artifact.
C3_MountsOfCreatedEntriesResolveAtFn ==
  \A c \in Calls :
    calls[c].pc = "fn"
    => /\ Children(c) = {}
       /\ \A i \in 1..Len(calls[c].deps) :
            LET cfg == calls[c].deps[i] IN
            /\ temps[c].exists /\ temps[c].ws
            /\ temps[c].mounts[MountName(cfg.path)] = ExpectedTarget(cfg)
            /\ Creates(registry[cfg.kind].fn) =>
                 /\ fsDataExists(store[DepFp(cfg)])
                 /\ MountResolves(store, temps[c], MountName(cfg.path))

C3_Witness ==
  \E c \in Calls : /\ calls[c].pc = "fn" /\ Len(calls[c].deps) = 2
                   /\ calls[c].deps[1].input # calls[c].deps[2].input
                   /\ Creates(registry["src"].fn)
                   /\ MountResolves(store, temps[c], "in2")

\* C4 (as stated): a parent is cached (an execute returned its path, its
\* entry is something its fn provided, its mount has the declared target),
\* its dependency, whose fn creates its entry, has been removed since, and
\* execute(parent) runs again: it returns the same path, does not invoke the
\* parent's fn, invokes the dependency's fn exactly once and leaves the mount
\* resolving to the re-created dependency artifact.
C4_RecoverRemovedDep ==
  \A c \in Calls :
    (/\ EndedExecute(c)
     /\ ~calls[c].skipCache
     /\ Len(calls[c].deps) = 1
     /\ fsDataExists(pre.store[Fp(c)])
     /\ pre.lastRet[Fp(c)] # NoPath
     /\ EntryProvided(pre.store[Fp(c)])
     /\ LET cfg == calls[c].deps[1] IN
        /\ Creates(registry[cfg.kind].fn)
        /\ pre.store[Fp(c)].mounts[MountName(cfg.path)] = ExpectedTarget(cfg)
        /\ ~pre.store[DepFp(cfg)].exists)
    => LET cfg == calls[c].deps[1] IN
       /\ calls[c].res.ok
       /\ calls[c].res.path = pre.lastRet[Fp(c)]
       /\ fnCalls[Fp(c)] = pre.fnCalls[Fp(c)]
       /\ fnCalls[DepFp(cfg)] = pre.fnCalls[DepFp(cfg)] + 1
       /\ store[Fp(c)].mounts[MountName(cfg.path)] = ExpectedTarget(cfg)
       /\ MountResolves(store, store[Fp(c)], MountName(cfg.path))

\* C5: the parent is cached and valid, its kind has been registered again
\* with a dependency whose input differs from the one its mount targets, and
\* execute runs on the new handle with skipCache=false: the parent's fn is
\* not invoked, the call returns the path returned before, and when it
\* returns every declared mount targets the dataLink of the published
\* artifact of the declared (kind, input).
C5_ConfigDriftRelinks ==
  \A c \in Calls :
    (/\ EndedExecute(c)
     /\ ~calls[c].skipCache
     /\ fsDataExists(pre.store[Fp(c)])
     /\ EntryProvided(pre.store[Fp(c)])
     /\ PathExists(pre.store, Fp(c), EntryRel(pre.store[Fp(c)]), Fuel)
     /\ pre.lastRet[Fp(c)] # NoPath
     /\ \E i \in 1..Len(calls[c].deps) :
          LET cfg == calls[c].deps[i]
              old == pre.store[Fp(c)].mounts[MountName(cfg.path)] IN
          old # NoMountLink /\ old # ExpectedTarget(cfg))
    => /\ calls[c].res.ok
       /\ calls[c].res.path = pre.lastRet[Fp(c)]
       /\ fnCalls[Fp(c)] = pre.fnCalls[Fp(c)]
       /\ \A i \in 1..Len(calls[c].deps) :
            LET cfg == calls[c].deps[i] IN
            /\ store[Fp(c)].mounts[MountName(cfg.path)] = ExpectedTarget(cfg)
            /\ fsDataExists(store[DepFp(cfg)])
            /\ store[DepFp(cfg)].link # NoLink

C5_Witness ==
  \E c \in Calls :
    /\ EndedExecute(c) /\ calls[c].pc = "done" /\ calls[c].took = "hit"
    /\ calls[c].deps = DepsV2
    /\ pre.store[Fp(c)].mounts["in"] = ExpectedTarget(DepsV1[1])
    /\ store[Fp(c)].mounts["in"] = ExpectedTarget(DepsV2[1])

\* C6 (as stated): when an execute call has failed, no published artifact
\* exists at its fingerprint.
C6_FailedLeavesNothing ==
  \A c \in Calls :
    (EndedExecute(c) /\ calls[c].pc = "failed") => ~fsDataExists(store[Fp(c)])

\* C7: an execute whose own fn threw hands the fn's error to its caller and
\* publishes nothing; with cleanTempOnError no scratch directory of that
\* fingerprint remains; without cleanTempOnError the scratch directory of
\* the call is still there.
C7_ScratchAfterThrow ==
  \A c \in Calls :
    (EndedExecute(c) /\ calls[c].ran = 1 /\ calls[c].fn.throws)
    => /\ calls[c].pc = "failed"
       /\ calls[c].res.err = "FnError"
       /\ ~store[Fp(c)].exists
       /\ cleanTempOnError =>
            \A d \in Calls : ~(temps[d].exists /\ temps[d].tmpOf = Fp(c))
       /\ ~cleanTempOnError =>
            temps[c].exists /\ temps[c].ws /\ temps[c].tmpOf = Fp(c)

C7_Witness ==
  \E c \in Calls : EndedExecute(c) /\ calls[c].ran = 1 /\ calls[c].fn.throws
                   /\ calls[c].deps # NoDeps /\ cleanTempOnError
                   /\ calls[c].res.err = "FnError"

\* C8: an execute whose fn returned an absolute, empty or ".."-containing
\* entry fails with the invalid-entry error and leaves nothing at its
\* fingerprint; and no artifact path ever holds a dataLink whose target
\* leaves data-space.
C8_UnsafeEntryRejected ==
  /\ \A c \in Calls :
       (/\ EndedExecute(c) /\ calls[c].ran = 1 /\ ~calls[c].fn.throws
        /\ \/ calls[c].fn.entry.abs
           \/ calls[c].fn.entry.segs = <<>>
           \/ \E i \in 1..Len(calls[c].fn.entry.segs) : calls[c].fn.entry.segs[i] = "..")
       => /\ calls[c].pc = "failed"
          /\ calls[c].res.err = "InvalidEntry"
          /\ ~store[Fp(c)].exists
  /\ \A fp \in Fps : store[fp].link # NoLink => LinkInside(store[fp].link)

C8_Witness ==
  \E c \in Calls : EndedExecute(c) /\ calls[c].ran = 1 /\ calls[c].fn = FnUp
                   /\ calls[c].res.err = "InvalidEntry"

\* C9: a top-level execute with skipCache=true that finds a published
\* artifact never takes the hit path and removes the artifact before it
\* builds; it invokes fn at most once, and exactly once unless a dependency
\* failed; when fn returned a safe entry the artifact at the fingerprint is
\* the one this run built; and a returned path is the new artifact's entry
\* at the path returned before.
C9_ForceRecompute ==
  \A c \in Calls :
    (/\ calls[c].role = "top" /\ calls[c].op = "execute" /\ calls[c].skipCache
     /\ fsDataExists(pre.store[Fp(c)]))
    => /\ calls[c].took \in {"", "force"}
       /\ calls[c].pc = "mkTemp" => ~store[Fp(c)].exists
       /\ fnCalls[Fp(c)] = pre.fnCalls[Fp(c)] + calls[c].ran
       /\ calls[c].ran <= 1
       /\ (Ended(c) /\ calls[c].ran = 0) => calls[c].deps # NoDeps
       /\ (Ended(c) /\ calls[c].ran = 1 /\ ~calls[c].fn.throws
             /\ assertSafeRelativePath(calls[c].fn.entry))
          => /\ fsDataExists(store[Fp(c)])
             /\ store[Fp(c)].ver = fnCalls[Fp(c)]
             /\ store[Fp(c)].ver > pre.store[Fp(c)].ver
       /\ calls[c].pc = "done" =>
            /\ calls[c].ran = 1
            /\ calls[c].res.path = readDataLink(Fp(c), store[Fp(c)]).path
            /\ pre.lastRet[Fp(c)] # NoPath => calls[c].res.path = pre.lastRet[Fp(c)]

C9_Witness ==
  \E c \in Calls : /\ calls[c].role = "top" /\ calls[c].skipCache /\ calls[c].pc = "done"
                   /\ fsDataExists(pre.store[Fp(c)]) /\ pre.lastRet[Fp(c)] # NoPath
                   /\ calls[c].took = "force" /\ store[Fp(c)].ver = 2

\* C10 (as stated): a get that has settled has invoked no fn, started no
\* dependency call, and left the store and the scratch directories as they
\* were; its result is the entry path when the manifest exists and the
\* dataLink resolves to an existing path inside data-space, and null
\* otherwise.
C10_GetIsProbeOnly ==
  \A c \in Calls :
    (Ended(c) /\ calls[c].op = "get")
    => /\ store = pre.store
       /\ temps = pre.temps
       /\ fnCalls = pre.fnCalls
       /\ Children(c) = {}
       /\ calls[c].pc = "done"
       /\ LET fp == Fp(c)
              d == store[fp] IN
          IF /\ fsDataExists(d) /\ d.link # NoLink
             /\ LinkInside(d.link)
             /\ PathExists(store, fp, EntryRel(d), Fuel)
          THEN calls[c].res.path = [fp |-> fp, segs |-> EntryRel(d)]
          ELSE calls[c].res.path = NoPath

\* C11: a remove that has settled has succeeded, whether or not the artifact
\* existed; nothing is left at its fingerprint, every other artifact
\* directory and every scratch directory is as it was, and no fn ran; a
\* remove that found nothing there leaves the store as it was (so a second
\* remove changes nothing); and a get on a fingerprint with no directory
\* returns null.
C11_RemoveIdempotent ==
  \A c \in Calls :
    /\ (Ended(c) /\ calls[c].op = "remove")
       => /\ calls[c].pc = "done" /\ calls[c].res.ok
          /\ store[Fp(c)] = NoDir
          /\ \A g \in Fps \ {Fp(c)} : store[g] = pre.store[g]
          /\ temps = pre.temps
          /\ fnCalls = pre.fnCalls
          /\ ~pre.store[Fp(c)].exists => store = pre.store
    /\ (Ended(c) /\ calls[c].op = "get" /\ ~pre.store[Fp(c)].exists)
       => calls[c].res.ok /\ calls[c].res.path = NoPath

C11_Witness ==
  \E c \in Calls :
    /\ Ended(c) /\ calls[c].op = "remove" /\ calls[c].kind = "src"
    /\ fsDataExists(pre.store[Fp(c)])
    /\ \E g \in Fps \ {Fp(c)} : fsDataExists(store[g]) /\ store[g].mounts["in"].to = Fp(c)

\* C12: an execute without forceRecompute on a fingerprint that had been
\* returned before and whose directory is gone when the call starts takes
\* the miss path: fn runs once more, the artifact is published again at the
\* same place, and the call returns the path it returned before the deletion.
C12_MissAfterDeletion ==
  \A c \in Calls :
    (/\ EndedExecute(c) /\ ~calls[c].skipCache
     /\ pre.lastRet[Fp(c)] # NoPath
     /\ ~pre.store[Fp(c)].exists)
    => /\ calls[c].took = "miss"
       /\ calls[c].ran = 1
       /\ fnCalls[Fp(c)] = pre.fnCalls[Fp(c)] + 1
       /\ calls[c].pc = "done" /\ calls[c].res.ok
       /\ calls[c].res.path = pre.lastRet[Fp(c)]
       /\ fsDataExists(store[Fp(c)])
       /\ store[Fp(c)].ver = fnCalls[Fp(c)]

C12_Witness ==
  \E c \in Calls :
    /\ EndedExecute(c) /\ ~calls[c].skipCache /\ calls[c].kind = "sink"
    /\ pre.lastRet[Fp(c)] # NoPath
    /\ ~pre.store[Fp(c)].exists
    /\ calls[c].res.ok /\ store[Fp(c)].ver = 2

\* C13: two inputs that are the same value written with their object keys
\* in different orders, at any depth, get the same dataId and the same
\* artifact path under one kind; and one input under two different kinds
\* gets two different serialisations.
C13_KeyOrderIrrelevant ==
  ids.pc = "done"
  => /\ SameValue(JObj(ids.a), JObj(ids.b))
          => ids.idA = ids.idB /\ ids.pathA = ids.pathB
     /\ ids.kind # ids.other => ids.idOther # ids.idA

C13_Witness ==
  /\ ids.pc = "done"
  /\ SameValue(JObj(ids.a), JObj(ids.b))
  /\ JObj(ids.b) \in KeyOrders(JObj(InputArray))
  /\ ids.a[1][1] # ids.b[1][1]
  /\ ids.a[1][2] # ids.b[2][2]
  /\ ids.kind # ids.other

\* C14: the metadata fn returns plays no part in where the artifact is: two
\* executes of one (kind, input) that have both run fn, with different
\* metadata, return the same path when both succeed; and the metadata of a
\* run whose rename lost is not in the descriptor at the artifact path.
C14_MetadataNotInKey ==
  /\ \A c \in Calls :
       (calls[c].op = "execute" /\ calls[c].renamed = "lost")
       => store[Fp(c)].manifest.metadata # calls[c].meta
  /\ \A c, d \in Calls :
       (/\ EndedExecute(c) /\ EndedExecute(d)
        /\ Fp(c) = Fp(d)
        /\ calls[c].ran = 1 /\ calls[d].ran = 1
        /\ calls[c].res.ok /\ calls[d].res.ok)
       => calls[c].res.path = calls[d].res.path

C14_Witness ==
  \E c, d \in Calls :
    /\ EndedExecute(c) /\ EndedExecute(d)
    /\ Fp(c) = Fp(d)
    /\ calls[c].res.ok /\ calls[d].res.ok
    /\ calls[c].renamed = "lost" /\ calls[d].renamed = "won"
    /\ calls[c].meta # calls[d].meta
    /\ calls[c].meta # 0
    /\ store[Fp(c)].manifest.metadata = calls[d].meta

\* C15: a directory exists at an artifact path exactly when it holds the
\* descriptor file.
C15_DirectoryIffDescriptor ==
  \A fp \in Fps : store[fp].exists <=> store[fp].manifest # NoManifest

\* C16 (as stated): the entry link of every published artifact resolves,
\* as path.resolve resolves it, to a path below the data-space directory and
\* never to the data-space directory itself.
C16_EntryStrictlyInside ==
  \A fp \in Fps :
    (fsDataExists(store[fp]) /\ store[fp].link # NoLink)
    => LinkInside(store[fp].link) /\ EntryRel(store[fp]) # <<>>

\* C16 (amended): the entry link of every published artifact resolves to the
\* data-space directory itself (entry ".") or to a path below it, and never
\* to a path outside it.
C16_EntryInsideOrWorkspace ==
  \A fp \in Fps :
    (fsDataExists(store[fp]) /\ store[fp].link # NoLink)
    => LinkInside(store[fp].link)

C16_Witness ==
  \E c \in Calls :
    /\ EndedExecute(c) /\ calls[c].res.ok /\ calls[c].fn = FnDot
    /\ fsDataExists(store[Fp(c)])
    /\ store[Fp(c)].link = <<DATA_SPACE_DIRNAME>>

\* C17: wherever the descriptor is present at an artifact path, the entry
\* link is present there too and resolves inside data-space.
C17_DescriptorImpliesEntryLink ==
  \A fp \in Fps :
    fsDataExists(store[fp])
    => store[fp].link # NoLink /\ LinkInside(store[fp].link)

\* C18: when an execute with forceRecompute has republished an artifact
\* over an earlier publish, the new descriptor has the createdAt of the
\* earlier one, and an updatedAt of its own.
C18_CreatedAtKept ==
  \A c \in Calls :
    (/\ EndedExecute(c) /\ calls[c].skipCache /\ calls[c].res.ok
     /\ calls[c].took = "force" /\ calls[c].renamed = "won"
     /\ fsDataExists(pre.store[Fp(c)])
     /\ fsDataExists(store[Fp(c)]))
    => /\ store[Fp(c)].manifest.createdAt = pre.store[Fp(c)].manifest.createdAt
       /\ store[Fp(c)].manifest.updatedAt # pre.store[Fp(c)].manifest.updatedAt

\* C19 (as stated): a scratch directory of a fingerprint exists together
\* with a published artifact of that fingerprint only while the call that
\* owns it is in its rename step (the rename and the loser's cleanup).
C19_NoScratchBesidePublished ==
  \A c \in Calls :
    (temps[c].exists /\ calls[c].pc \notin {"rename", "rmLoser"})
    => ~fsDataExists(store[temps[c].tmpOf])

\* C19 (amended): a call that has been through its rename step has no
\* scratch directory any more, whether its rename won or lost.
C19_NoScratchAfterRename ==
  \A c \in Calls :
    (calls[c].renamed # "" /\ calls[c].pc # "rmLoser") => ~temps[c].exists

C19_Witness ==
  \E c, d \in Calls :
    /\ EndedExecute(c) /\ calls[c].renamed = "lost" /\ ~temps[c].exists
    /\ calls[d].renamed = "won" /\ Fp(d) = Fp(c) /\ ~temps[d].exists
    /\ fsDataExists(store[Fp(c)])

\* What a step of removeDir does to a directory: one member, or the
\* directory itself, goes.
Deletes(d, e) ==
  e = NoDir \/ \E m \in Members(d) : e = RemoveMember(d, m)

UnsafeMount(p) == p.abs \/ p.segs = <<>> \/ \E i \in 1..Len(p.segs) : p.segs[i] = ".."

DeclaresUnsafe(c) == \E i \in 1..Len(calls[c].deps) : UnsafeMount(calls[c].deps[i].path)

\* C21: an execute whose declared dependencies include an absolute, empty or
\* ".."-containing mount path fails, no symlink is made outside the
\* workspace, and the parent artifact is not published by the call, on the
\* miss path and on the hit path alike.
C21_UnsafeMountRejected ==
  /\ stray = {}
  /\ \A c \in Calls :
       EndedExecute(c) /\ DeclaresUnsafe(c) =>
         /\ ~calls[c].res.ok
         /\ calls[c].renamed # "won"
         /\ ~fsDataExists(pre.store[Fp(c)]) => ~fsDataExists(store[Fp(c)])

\* An execute that hit a published parent and failed on its unsafe mount path.
C21_Witness ==
  \E c \in Calls :
    /\ EndedExecute(c) /\ DeclaresUnsafe(c)
    /\ calls[c].took = "hit"
    /\ calls[c].res = Err("InvalidDepPath")
    /\ fsDataExists(store[Fp(c)])

\* The kind texts the claim says are rejected.
RejectedKind(text) ==
  \/ text = <<>>
  \/ \A i \in 1..Len(text) : text[i] \in Whitespace
  \/ Head(text) \in Whitespace
  \/ text[Len(text)] \in Whitespace
  \/ text = <<".">>
  \/ text = <<".", ".">>
  \/ \E i \in 1..Len(text) : text[i] = "/" \/ text[i] = "\\"

\* C22: createExecutor throws for every kind that is empty, whitespace only,
\* has leading or trailing whitespace, is "." or "..", or contains a forward
\* or backward slash, and a rejected registration leaves the registry (and
\* the handles given out) unchanged.
C22_InvalidKindRejected ==
  [][regs' = regs + 1 /\ RejectedKind(lastReg'.text) =>
       lastReg'.threw /\ registry' = registry /\ handles' = handles]_vars

\* A kind with leading whitespace was offered and rejected.
C22_Witness ==
  /\ regs = 1
  /\ lastReg = [text |-> <<" ", "s", "r", "c">>, threw |-> TRUE]
  /\ registry["src"].deps = NoDeps

\* C23: an execute that has to run a declared dependency whose kind is not in
\* the registry fails with the unknown-executor error: on a miss (every
\* declared dependency is run) and on a hit whose mount for that dependency
\* does not resolve (recovery has to run it).
C23_UnknownKindFails ==
  \A c \in Calls :
    (/\ EndedExecute(c)
     /\ \E i \in 1..Len(calls[c].deps) :
          LET cfg == calls[c].deps[i] IN
          /\ ~registry[cfg.kind].reg
          /\ \/ calls[c].took # "hit"
             \/ ~MountResolves(pre.store, pre.store[Fp(c)], MountName(cfg.path)))
    => calls[c].res = Err("ExecutorNotFound")

\* C23 on the miss path alone: processDeps fails with the unknown-executor
\* error.
C23_UnknownKindFailsOnMiss ==
  \A c \in Calls :
    (/\ EndedExecute(c)
     /\ calls[c].took # "hit"
     /\ \E i \in 1..Len(calls[c].deps) : ~registry[calls[c].deps[i].kind].reg)
    => calls[c].res = Err("ExecutorNotFound")

\* The mounts a deps record declares, by mount name.
DeclaredMounts(deps) ==
  [n \in MountNames |->
     IF \E i \in 1..Len(deps) : MountName(deps[i].path) = n
     THEN ExpectedTarget(deps[CHOOSE i \in 1..Len(deps) : MountName(deps[i].path) = n])
     ELSE NoMountLink]

\* C24: every execution of the dynamic kind for input i, called directly,
\* concurrently with a call for another input, or resolved as a dependency,
\* has mounted exactly depsFn(i) when its fn has run.
C24_DynamicDepsMounted ==
  \A c \in Calls :
    (calls[c].op = "execute" /\ calls[c].kind = "src" /\ calls[c].pc = "writeManifest")
    => temps[c].mounts = DeclaredMounts(depsFn(calls[c].input))

\* C25: listFsDataNodes never returns a node for a directory whose name
\* begins with ".tmp-", whatever the directory holds and whatever the
\* executes in progress do while it runs.
C25_NoNodeForScratch ==
  \A node \in scan.nodes : node.dataId.prefix # TMP_PREFIX

\* A listing that ran while an execute was in progress met a scratch
\* directory that holds a descriptor, and returned nodes.
C25_Witness ==
  /\ scan.pc = "done" /\ ~scan.quiet /\ scan.nodes # {}
  /\ \E n \in scan.skipped :
       temps[n.nonce].exists /\ temps[n.nonce].manifest # NoManifest

\* The nodes a listing step has added.
Added == scan'.nodes \ scan.nodes

\* The edge the claim calls for at symlink n of workspace d: one edge,
\* labelled n, when the target is the entry link of an artifact directory
\* <kind>/<shard>/<dataId> under the store version root, and none otherwise.
EdgesFor(d, n) ==
  IF d.ws /\ \E fp \in Fps : d.mounts[n] = computeDepLinkTarget(<<n>>, fp)
  THEN {[linkPath |-> n, targetKind |-> KindOfFp(d.mounts[n].to),
         targetDataId |-> d.mounts[n].to]}
  ELSE {}

\* C26: every node listFsDataNodes returns is that of a published artifact
\* (a directory with a descriptor), with the descriptor's content, a null
\* entry path when the entry link is missing or leaves the workspace, and
\* exactly one edge for each workspace symlink that targets the entry link
\* of an artifact directory in the store, labelled with the symlink's path
\* relative to the workspace; symlinks that resolve outside the store give
\* no edge.  A listing during which the engine is idle returns exactly one
\* node for each published artifact.
C26_ListingMatchesStore ==
  [][/\ \A nd \in Added :
          LET d == store[nd.dataId.id] IN
          /\ nd.dataId.prefix = "" /\ nd.dataId.id \in Fps
          /\ fsDataExists(d)
          /\ nd.kind = KindOfFp(nd.dataId.id)
          /\ nd.manifest = d.manifest
          /\ (d.link = NoLink \/ ~LinkInside(d.link)) => nd.entryPath = NoPath
          /\ nd.deps = UNION {EdgesFor(d, n) : n \in MountNames}
     /\ (scan.pc # "done" /\ scan'.pc = "done" /\ scan.quiet /\ scan.ops = ops) =>
          \A fp \in Fps :
            Cardinality({nd \in scan'.nodes : nd.dataId.id = fp})
              = IF fsDataExists(store[fp]) THEN 1 ELSE 0]_vars

\* A listing on an idle engine returned two nodes; the parent's has one edge
\* for its mount and none for the symlink its fn made to a path outside the
\* store.
C26_Witness ==
  /\ scan.pc = "done" /\ scan.quiet /\ scan.ops = ops
  /\ Cardinality(scan.nodes) = 2
  /\ \E nd \in scan.nodes :
       /\ nd.kind = "sink"
       /\ Cardinality(nd.deps) = 1
       /\ store[nd.dataId.id].mounts["in2"] = OutsideLink

\* C27: two inputs that differ only in the order of the elements of their
\* arrays, at any depth, get the same dataId.
C27_ArrayOrderIrrelevant ==
  (ids.pc = "done" /\ JObj(ids.b) \in ArrayOrders(JObj(ids.a))) => ids.idA = ids.idB

\* Two inputs whose outer array and both inner arrays are in different
\* orders have been given their dataIds.
C27_Witness ==
  /\ ids.pc = "done"
  /\ ids.a = InputDeepList
  /\ JObj(ids.b) \in ArrayOrders(JObj(ids.a))
  /\ ids.b[1][2].kids[1][2].t = "obj"
  /\ ids.b[1][2].kids[1][2].kids[1][2].kids[1][2] = JStr("b")
  /\ ids.b[1][2].kids[2][2].kids[1][2] = JNum(2)

\* The value holds a function, at any depth.
RECURSIVE HasFunction(_)
HasFunction(v) == v.t = "fn" \/ \E i \in 1..Len(v.kids) : HasFunction(v.kids[i][2])

\* C28: generateDataId fails with an error, and returns no digest, for an
\* input that holds a function or refers back to itself.
C28_UnserializableRejected ==
  (ids.pc = "done" /\ (HasFunction(JObj(ids.a)) \/ Cyclic(JObj(ids.a))))
  => ids.errA # "" /\ ids.idA = <<>>

\* C28 for inputs that refer back to themselves alone: the recursion of
\* stableStringify ends in an error and no digest is returned.
C28_CyclicThrows ==
  (ids.pc = "done" /\ Cyclic(JObj(ids.a))) => ids.errA # "" /\ ids.idA = <<>>

\* The calls a dependency call was started for, directly or through other
\* dependency calls.
RECURSIVE Ancestors(_, _)
Ancestors(c, fuel) ==
  IF fuel = 0 \/ calls[c].parent = 0 THEN {}
  ELSE {calls[c].parent} \cup Ancestors(calls[c].parent, fuel - 1)

\* C29: a dependency call for a (kind, input) that one of the calls it was
\* started for is already executing is not run: it fails with the
\* invalid-argument error.
C29_CycleDetected ==
  \A c \in Calls :
    (/\ calls[c].op = "execute"
     /\ \E a \in Ancestors(c, MaxCalls) : calls[a].op = "execute" /\ Fp(a) = Fp(c))
    => calls[c].res = Err("InvalidArgument")

\* C29, the depth of the recursion: the call frames are never all in use by
\* executes of one (kind, input), each started for the one before.
C29_ChainLeavesAFrame ==
  ~(\A c \in Calls : /\ calls[c].op = "execute" /\ calls[c].kind = "sink"
                      /\ Cardinality(Ancestors(c, MaxCalls)) = c - 1)

\* C30: a call whose rename onto the artifact path failed because the path
\* was taken removes its own scratch directory, changes nothing in the
\* store (the winner's descriptor, entry link and workspace stay as they
\* are), and ends without an error, returning the path the published entry
\* link gives.
C30_LoserDefersToWinner ==
  [][\A c \in Calls :
       (calls[c].op = "execute" /\ calls[c].renamed = "lost" /\ calls'[c] # calls[c])
       => /\ store' = store
          /\ calls[c].pc = "rmLoser" => ~temps'[c].exists
          /\ calls[c].pc = "readResult" =>
               /\ calls'[c].res.ok
               /\ calls'[c].res.path = readDataLink(Fp(c), store[Fp(c)]).path
               /\ calls'[c].res.path # NoPath]_vars

\* Two callers of one (kind, input): one has lost the rename and returned
\* the path of the artifact the other published, and its scratch directory
\* is gone.
C30_Witness ==
  \E c, d \in TopsInFlight :
    /\ c # d /\ Fp(c) = Fp(d)
    /\ calls[c].renamed = "lost" /\ calls[d].renamed = "won"
    /\ calls[c].pc = "done" /\ calls[c].res.ok
    /\ calls[c].res.path = readDataLink(Fp(c), store[Fp(c)]).path
    /\ ~temps[c].exists
    /\ store[Fp(c)].ver = calls[d].meta

\* The fn of a call and the fn of every dependency it declares succeed.
AllSucceed(f) ==
  /\ Creates(f.fn)
  /\ \A i \in 1..Len(f.deps) :
       registry[f.deps[i].kind].reg /\ Creates(registry[f.deps[i].kind].fn)

\* C31: when all the operations of a behaviour are N >= 2 concurrent execute
\* calls on one (kind, input), at least one of them with skipCache=true, and
\* all have returned, every call whose fn and dependencies succeed has
\* returned a path without error, one artifact and no scratch directory
\* exists at the fingerprint, and every returned path is the entry of that
\* artifact and exists in it.
C31_ForcedRaceReturnsPath ==
  LET tops == TopsInFlight IN
  (/\ Cardinality(tops) >= 2
   /\ Cardinality(tops) = ops
   /\ \A c \in tops : EndedExecute(c)
   /\ \A c, d \in tops : Fp(c) = Fp(d)
   /\ \E c \in tops : calls[c].skipCache)
  => \A c \in tops :
       AllSucceed(calls[c])
       => /\ calls[c].pc = "done"
          /\ fsDataExists(store[Fp(c)])
          /\ \A d \in Calls : ~(temps[d].exists /\ temps[d].tmpOf = Fp(c))
          /\ calls[c].res.path = readDataLink(Fp(c), store[Fp(c)]).path
          /\ PathExists(store, Fp(c), calls[c].res.path.segs, Fuel)

\* The mount of declaration cfg in directory d of store st is missing, has
\* another target than the expected one, or dangles.
MountInvalid(st, d, cfg) ==
  \/ d.mounts[MountName(cfg.path)] # ExpectedTarget(cfg)
  \/ ~MountResolves(st, d, MountName(cfg.path))

\* C32: when all the calls in flight are N >= 2 execute calls on one cached
\* parent with the same declared dependencies, started in the same tick when
\* one of the declared mounts was invalid, and all have settled, every call
\* has returned without error and every declared mount has the expected
\* target.
C32_ConcurrentRecoveryHeals ==
  LET tops == TopsInFlight IN
  (/\ Cardinality(tops) >= 2
   /\ \A c \in tops : /\ EndedExecute(c) /\ ~calls[c].skipCache
                      /\ calls[c].kind = "sink" /\ calls[c].took = "hit"
   /\ \A c, d \in tops : calls[c].deps = calls[d].deps
   /\ \E c \in tops : \E i \in 1..Len(calls[c].deps) :
        MountInvalid(pre.store, pre.store[Fp(c)], calls[c].deps[i]))
  => \A c \in tops :
       /\ calls[c].pc = "done"
       /\ \A i \in 1..Len(calls[c].deps) :
            store[Fp(c)].mounts[MountName(calls[c].deps[i].path)]
              = ExpectedTarget(calls[c].deps[i])

\* C33: with cleanTempOnError, once a top-level execute that declares
\* several dependencies has failed and every call it started has finished,
\* no scratch directory of that call exists.
C33_NoScratchAfterDepFailure ==
  \A c \in Calls :
    (/\ cleanTempOnError
     /\ EndedExecute(c) /\ calls[c].pc = "failed"
     /\ Len(calls[c].deps) >= 2
     /\ Children(c) = {})
    => ~temps[c].exists

\* tryReadEntryPath on directory fp of store st returns null: the dataLink
\* is missing, resolves outside data-space, or names a path that is not there.
EntryBroken(st, fp) ==
  LET r == readDataLink(fp, st[fp]) IN
  r.err # "" \/ ~PathExists(st, fp, r.path.segs, Fuel)

\* The fn of a call returns a safe entry that is there when fn returns: the
\* data-space, a file fn wrote, or a declared mount of a dependency whose fn
\* creates its entry; and the fn of every declared dependency succeeds.
Provides(f) ==
  /\ ~f.fn.throws
  /\ assertSafeRelativePath(f.fn.entry)
  /\ LET r == Normalize(f.fn.entry.segs) IN
     \/ r = <<>>
     \/ Len(r) = 1 /\ Head(r) \in f.fn.writes
     \/ Len(r) = 1 /\ \E i \in 1..Len(f.deps) : MountName(f.deps[i].path) = Head(r)
  /\ \A i \in 1..Len(f.deps) :
       registry[f.deps[i].kind].reg /\ Creates(registry[f.deps[i].kind].fn)

C34_RebuiltUnlessDotDot ==
  \A c \in Calls :
    (/\ EndedExecute(c)
     /\ ~calls[c].skipCache
     /\ fsDataExists(pre.store[Fp(c)])
     /\ EntryBroken(pre.store, Fp(c))
     /\ Provides(calls[c])
     /\ calls[c].fn.entry # EntryDotDotFoo
     /\ \A i \in 1..Len(calls[c].deps) :
          registry[calls[c].deps[i].kind].fn.entry # EntryDotDotFoo)
    => /\ calls[c].took = "corrupt"
       /\ fnCalls[Fp(c)] = pre.fnCalls[Fp(c)] + 1
       /\ fsDataExists(store[Fp(c)])
       /\ store[Fp(c)].ver = fnCalls[Fp(c)]
       /\ calls[c].pc = "done"
       /\ calls[c].res.path = readDataLink(Fp(c), store[Fp(c)]).path
       /\ PathExists(store, Fp(c), calls[c].res.path.segs, Fuel)

C34_RebuiltWitness ==
  \E c \in Calls :
    /\ EndedExecute(c) /\ ~calls[c].skipCache /\ calls[c].pc = "done"
    /\ fsDataExists(pre.store[Fp(c)]) /\ EntryBroken(pre.store, Fp(c))
    /\ Provides(calls[c]) /\ calls[c].fn.entry # EntryDotDotFoo

\* The position of a step of execute in the order of the miss path; the
\* probe and the removal of an old artifact come before it, the steps of the
\* hit path and what follows the rename after it.
MissRank(pc) ==
  CASE pc \in {"probe", "readLink", "statEntry", "rmBegin", "rmChild", "rmDir"} -> 0
    [] pc = "mkTemp" -> 1
    [] pc = "deps" -> 2
    [] pc = "waitDeps" -> 3
    [] pc = "fn" -> 4
    [] pc = "writeManifest" -> 5
    [] pc = "createLink" -> 6
    [] pc = "rename" -> 7
    [] OTHER -> 8

\* C35: in every step of an execute call, a step of the miss path (scratch
\* directory, dependencies, fn, descriptor, entry link, rename) is entered
\* only from an earlier position, so the steps occur in this order and each
\* at most once; fn is entered only when the scratch directory holds every
\* declared mount, the entry link is created only after the descriptor is in
\* the scratch directory, the rename is attempted only when descriptor and
\* entry link are both there, and a call that takes the hit path creates no
\* scratch directory (it never enters a step of the miss path and changes
\* nothing in the scratch slot of its frame) and has not invoked fn.
C35_MissPathInOrder ==
  [][\A c \in Calls :
       (/\ calls[c].op = "execute" /\ calls'[c].op = "execute"
        /\ calls'[c].pc # calls[c].pc)
       => /\ MissRank(calls'[c].pc) \in 1..7 => MissRank(calls[c].pc) < MissRank(calls'[c].pc)
          /\ MissRank(calls[c].pc) \in 1..7 => MissRank(calls[c].pc) < MissRank(calls'[c].pc)
          /\ calls'[c].pc \in {"deps", "fn"} => temps'[c].exists /\ temps'[c].ws
          /\ calls'[c].pc = "fn" =>
               /\ calls'[c].ran = 0
               /\ \A i \in 1..Len(calls[c].deps) :
                    temps'[c].mounts[MountName(calls[c].deps[i].path)]
                      = ExpectedTarget(calls[c].deps[i])
          /\ calls'[c].pc = "writeManifest" => calls'[c].ran = 1
          /\ calls'[c].pc = "createLink" => temps'[c].manifest # NoManifest
          /\ calls'[c].pc = "rename" =>
               /\ calls'[c].ran = 1
               /\ temps'[c].manifest # NoManifest
               /\ temps'[c].link # NoLink
          /\ calls'[c].took = "hit" => calls'[c].ran = 0 /\ temps'[c] = temps[c]]_vars

C35_Witness ==
  /\ \E c \in Calls :
       /\ EndedExecute(c) /\ calls[c].pc = "done" /\ calls[c].took = "hit"
       /\ calls[c].deps # NoDeps /\ fnCalls[Fp(c)] = 1 /\ ~temps[c].exists
  /\ \A f \in Fps : store[f].exists => renames[f] = 1 /\ store[f].manifest # NoManifest
                                      /\ store[f].link # NoLink
  /\ \E f \in Fps : store[f].exists /\ store[f].mounts["in"] # NoMountLink

\* C36: with the acyclic declarations of this specification (the parent
\* mounts one dependency, the dependency declares none) and fns that return
\* or throw, every execute call that is running, top-level or started for a
\* dependency, eventually settles: a top-level call reaches done or failed,
\* a dependency call hands its result over and its frame is released; also
\* when forced executes and removes of the same fingerprints run with it.
C36_ExecuteSettles ==
  \A c \in Calls :
    (calls[c].op = "execute") ~> (Ended(c) \/ calls[c].op = "idle")

C36_Witness ==
  /\ ops = 3
  /\ \A c \in TopsInFlight : Ended(c)
  /\ \E c, d \in TopsInFlight :
       /\ calls[c].op = "execute" /\ calls[c].skipCache /\ calls[c].took = "force"
       /\ calls[c].kind = "sink" /\ calls[c].pc = "done"
       /\ calls[d].op = "remove" /\ Fp(d) = DepFp(DepsV1[1])

\* The artifacts that the mounts of published artifact fp lead to: the
\* targets of the edges discoverDepLinks finds, themselves published.
MountTargets(st, fp) ==
  IF ~fsDataExists(st[fp]) THEN {}
  ELSE {e.targetDataId : e \in discoverDepLinks(st[fp])} \cap {f \in Fps : fsDataExists(st[f])}

\* The artifacts reached from those of S along at most n further edges.
RECURSIVE Reached(_, _, _)
Reached(st, S, n) ==
  IF n = 0 THEN S
  ELSE Reached(st, S \cup UNION {MountTargets(st, f) : f \in S}, n - 1)

\* C37: the graph of published artifacts and their mount symlinks, as
\* listFsDataNodes reconstructs it, has no cycle: no published artifact is
\* reached from one of its own mount targets.
C37_ListedGraphAcyclic ==
  \A fp \in Fps : fp \notin Reached(store, MountTargets(store, fp), Cardinality(Fps))

\* C38: a dependency call, started by processDeps or by recoverInvalidDeps,
\* runs the deps and fn that the registry holds for its kind at that moment,
\* which are those of the latest createExecutor call for the kind; a
\* top-level execute runs the deps and fn of a handle createExecutor
\* returned, no handle is ever lost or changed by a later createExecutor
\* call, a call keeps its deps and fn until it ends, and the fn a call runs
\* is the one it was started with.
C38_LatestRegistrationResolves ==
  [][/\ \A c \in Calls :
          /\ (calls[c].op = "idle" /\ calls'[c].op = "execute") =>
               IF calls'[c].role \in {"mount", "recover"}
               THEN registry[calls'[c].kind].reg =>
                      /\ calls'[c].deps = registry[calls'[c].kind].deps
                      /\ calls'[c].fn = registry[calls'[c].kind].fn
               ELSE Handle(calls'[c].kind, calls'[c].deps, calls'[c].fn) \in handles
          /\ (calls[c].op = "execute" /\ calls'[c].op = "execute") =>
               /\ calls'[c].deps = calls[c].deps
               /\ calls'[c].fn = calls[c].fn
          /\ (calls[c].pc = "fn" /\ calls'[c].pc # "fn") =>
               IF calls[c].fn.throws THEN calls'[c].pc = "catch"
               ELSE /\ calls'[c].entry = calls[c].fn.entry
                    /\ calls[c].fn.writes \subseteq temps'[c].files
     /\ handles \subseteq handles'
     /\ regs' # regs =>
          \A k \in Kinds : registry'[k] # registry[k] =>
            Handle(k, registry'[k].deps, registry'[k].fn) \in handles']_vars

\* The dependency kind was registered again with another fn.  The parent was
\* then executed and mounted a dependency artifact made by the new fn, and
\* the handle of the first registration, executed afterwards, has run the fn
\* it was created with.
C38_Witness ==
  /\ regs = 1 /\ registry["src"].fn = FnMissing
  /\ LET d == store[DataId("src", InputV1)] IN
       /\ fsDataExists(d) /\ d.files = {} /\ d.link = <<DATA_SPACE_DIRNAME>> \o EntryMissing.segs
  /\ fsDataExists(store[DataId("sink", <<>>)])
  /\ \E c \in Calls :
       /\ calls[c].op = "execute" /\ calls[c].role = "top" /\ calls[c].kind = "src"
       /\ calls[c].fn = FnOut /\ calls[c].ran = 1 /\ calls[c].pc = "done"

\* The artifact that top-level call c found when it started has a descriptor,
\* an entry link that resolves inside data-space to an existing path, and,
\* for every dependency the call declares, a mount with exactly the expected
\* target that fs.stat can follow.
ValidHit(c) ==
  LET fp == Fp(c)
      d == pre.store[fp]
      r == readDataLink(fp, d) IN
  /\ calls[c].role = "top" /\ calls[c].op = "execute" /\ ~calls[c].skipCache
  /\ fsDataExists(d)
  /\ r.err = "" /\ PathExists(pre.store, fp, r.path.segs, Fuel)
  /\ \A i \in 1..Len(calls[c].deps) : ~MountInvalid(pre.store, d, calls[c].deps[i])

\* C39: a top-level execute without skipCache that found such an artifact
\* has, at every moment until it returns, called no fn (its own or a
\* dependency's, whatever skipCache the dependency's config carries),
\* started no dependency call, created no scratch directory and left every
\* artifact directory as it was; it does not fail, and it returns the
\* artifact's entry path.
C39_ValidHitTouchesNothing ==
  \A c \in Calls :
    ValidHit(c)
    => /\ fnCalls = pre.fnCalls
       /\ store = pre.store
       /\ temps = pre.temps
       /\ Children(c) = {}
       /\ calls[c].ran = 0
       /\ calls[c].took \in {"", "hit"}
       /\ calls[c].pc # "failed"
       /\ calls[c].pc = "done" =>
            calls[c].res.path = readDataLink(Fp(c), store[Fp(c)]).path

\* A hit on a parent whose declared dependency carries skipCache = true has
\* returned; the dependency's mount was valid.
C39_Witness ==
  \E c \in Calls :
    /\ ValidHit(c) /\ calls[c].pc = "done" /\ calls[c].took = "hit"
    /\ calls[c].deps = DepsSkip
    /\ pre.fnCalls[DepFp(DepsSkip[1])] >= 1

====
